---- MODULE Spec2Model ----
(***************************************************************************)
(* State-machine model of the ExcaliDash backend (backend/src/index.ts):   *)
(* the Socket.io collaboration relay, the rate limiter, the drawings       *)
(* response cache and the SQLite import pipeline.  Each subsystem has its  *)
(* own variables and its own specification; a subsystem's specification    *)
(* leaves the variables of the other subsystems unchanged.                 *)
(***************************************************************************)
EXTENDS Integers, Sequences, FiniteSets, TLC

(***************************************************************************)
(* Universe of the model                                                   *)
(***************************************************************************)
\* socket.id values of the connections the server may accept
Sockets == {"s1", "s2", "s3"}
\* drawingId values clients put in their payloads
DrawingIds == {"d1", "d2"}
\* client-declared user.id values
UserIds == {"u1", "u2"}
\* the relay handles at most MaxSteps client events (connections not counted)
MaxSteps == 3

\* `drawing_${drawingId}`
RoomId(drawingId) == <<"drawing_", drawingId>>
RoomIds == {RoomId(d) : d \in DrawingIds}

\* ---- collaboration relay ----
VARIABLES
  connState,    \* socket -> "idle" | "connected" | "disconnected"
  socketRooms,  \* Socket.io adapter rooms: roomId -> set of sockets (socket.join)
  roomUsers,    \* const roomUsers = new Map<string, User[]>(), in insertion order
  inbox,        \* socket -> cursor-move/element-update packets received, in order
  sendSeq,      \* socket -> number of cursor-move/element-update events it produced
  steps,        \* number of client events handled so far
  lastEvent,    \* the event the server handled last
  lastEmits     \* the emit calls of that handler, in order

relayVars == <<connState, socketRooms, roomUsers, inbox, sendSeq, steps,
              lastEvent, lastEmits>>

\* ---- wall clock ----
VARIABLE now   \* Date.now()

\* ---- rate limiter ----
VARIABLES
  requestCounts,  \* new Map<string, { count, resetTime }>(), as a function
  window,         \* per address: the window the request history defines
  lastDecision,   \* address and outcome of the request answered last
  rejections,     \* per address: number of 429 answers so far
  requests        \* number of requests so far

rateVars == <<requestCounts, window, lastDecision, rejections, requests>>

\* ---- drawings cache ----
VARIABLES
  drawingsCache,  \* new Map<string, DrawingsCacheEntry>(), as a function
  storeRev,       \* revision of the persisted drawings/collections data
  getReq,         \* GET /drawings requests: position, key, rows read
  mutReq,         \* mutating requests: position, revision written
  floorRev,       \* per key: newest completed mutation that found the key cached
  completedRev,   \* newest revision whose handler has invalidated the cache
  lastGet,        \* the GET /drawings response sent last
  started         \* number of requests accepted so far

cacheVars == <<drawingsCache, storeRev, getReq, mutReq, floorRev, completedRev,
               lastGet, started>>

\* the cache variables POST /import/sqlite leaves alone
cacheRest == <<storeRev, getReq, mutReq, floorRev, completedRev, lastGet, started>>

\* ---- SQLite import ----
VARIABLES
  files,        \* the file system: path -> content, or Absent
  impPc,        \* position of the POST /import/sqlite handler
  mvPc,         \* position inside moveFile while the handler stages or swaps
  run,          \* number of the current import request
  uploaded,     \* content of the file the client uploaded in this request
  before,       \* live store and backup as they were when the request arrived
  response,     \* status of the response sent for this request, 0 while running
  worker,       \* the db-verify Worker created last: its state, whether it posted
  settled,      \* let settled = false of the verification promise created last
  timeoutHandle,\* the 10 s timer of that promise: "none" | "armed" | "cleared"
  verdict,      \* the resolve calls of that promise: request, number, cause, value
  trail,        \* the steps this request has completed, in order
  endpoint      \* the route of this request: "import" | "verify"

\* the state of verifyDatabaseIntegrityAsync's promise and worker
workerVars == <<worker, settled, timeoutHandle, verdict>>

importVars == <<files, impPc, mvPc, run, uploaded, before, response, workerVars,
               trail, endpoint>>

\* ---- drawings: POST /drawings and PUT /drawings/:id ----
VARIABLES
  drawingRows,    \* prisma.drawing: the rows by id
  writeReq,       \* create and update requests: position, parsed payload, log
  lastWrite,      \* the create or update response sent last
  applied,        \* per id: the update the store applied last, and how many
  invalidations,  \* number of invalidateDrawingsCache() calls of these handlers
  accepted        \* number of create and update requests received so far

drawingVars == <<drawingRows, writeReq, lastWrite, applied, invalidations, accepted>>

\* ---- export: GET /export/json ----
VARIABLES
  exportStore,    \* the rows prisma.drawing.findMany({ include: collection }) returns
  archive         \* the archive sent last: the rows it was built from, its entries

exportVars == <<exportStore, archive>>

\* ---- drawings by id: GET, DELETE /drawings/:id, POST /drawings/:id/duplicate ----
VARIABLES
  byIdReq,        \* the request in progress: position, route, id, what prisma found
  lastById,       \* the response sent last for one of these routes
  byIdCount       \* number of these requests received so far

byIdVars == <<byIdReq, lastById, byIdCount>>

\* ---- collections: POST /collections, DELETE /collections/:id ----
VARIABLES
  collections,    \* prisma.collection: the ids of the rows
  collectionOf,   \* drawing -> its collectionId, None for null
  colReq,         \* the DELETE /collections/:id in progress: position, id
  lastCol,        \* the response sent last for DELETE /collections/:id
  colCount        \* number of collections created so far

collectionVars == <<collections, collectionOf, colReq, lastCol, colCount>>

\* ---- the cache key of GET /drawings ----
VARIABLES
  keyQuery,       \* req.query of the listing request handled last
  cacheKey        \* const cacheKey of that request, <<>> before the first one

keyVars == <<keyQuery, cacheKey>>

\* ---- DrawingCard (frontend) ----
VARIABLES
  cardId,         \* drawing.id, the drawing the card shows
  fullDataId,     \* fullData: the id of the drawing whose data it holds, None for null
  promiseRef,     \* fullDataPromiseRef.current: the number of a request, 0 for null
  inflight,       \* the getDrawing requests not yet settled: number and id
  cardReqs        \* number of getDrawing requests started so far

cardVars == <<cardId, fullDataId, promiseRef, inflight, cardReqs>>

vars == <<relayVars, now, rateVars, cacheVars, importVars, drawingVars, exportVars,
          byIdVars, collectionVars, keyVars, cardVars>>

\* what the handlers of one subsystem leave unchanged in the others
RelayFrame == UNCHANGED <<now, rateVars, cacheVars, importVars, drawingVars, exportVars,
  byIdVars, collectionVars, keyVars, cardVars>>
RateFrame == UNCHANGED <<relayVars, cacheVars, importVars, drawingVars, exportVars,
  byIdVars, collectionVars, keyVars, cardVars>>
CacheFrame == UNCHANGED <<relayVars, rateVars, importVars, drawingVars, exportVars,
  byIdVars, collectionVars, keyVars, cardVars>>
ImportFrame == UNCHANGED <<relayVars, now, rateVars, cacheRest, drawingVars, exportVars,
  byIdVars, collectionVars, keyVars, cardVars>>
DrawingFrame == UNCHANGED <<relayVars, now, rateVars, cacheRest, importVars, exportVars,
  byIdVars, collectionVars, keyVars, cardVars>>
ExportFrame == UNCHANGED <<relayVars, now, rateVars, cacheVars, importVars, drawingVars,
  byIdVars, collectionVars, keyVars, cardVars>>
ByIdFrame ==
  UNCHANGED <<relayVars, now, rateVars, cacheRest, importVars, exportVars,
              writeReq, lastWrite, applied, invalidations, accepted, collectionVars,
              keyVars, cardVars>>
CollectionFrame ==
  UNCHANGED <<relayVars, now, rateVars, cacheRest, importVars, drawingVars, exportVars,
              byIdVars, keyVars, cardVars>>
KeyFrame ==
  UNCHANGED <<relayVars, now, rateVars, cacheVars, importVars, drawingVars, exportVars,
              byIdVars, collectionVars, cardVars>>
CardFrame ==
  UNCHANGED <<relayVars, now, rateVars, cacheVars, importVars, drawingVars, exportVars,
              byIdVars, collectionVars, keyVars>>
\* a step of the import handler outside verifyDatabaseIntegrityAsync
HandlerFrame == UNCHANGED <<workerVars, endpoint>> /\ ImportFrame

(***************************************************************************)
(* JavaScript Map kept as an association list (insertion order is the      *)
(* iteration order of Map.prototype.forEach).                              *)
(***************************************************************************)
MapHas(m, k) == \E i \in 1..Len(m) : m[i].key = k
MapGet(m, k) == m[CHOOSE i \in 1..Len(m) : m[i].key = k].val
MapSet(m, k, v) ==
  IF MapHas(m, k)
    THEN [i \in 1..Len(m) |-> IF m[i].key = k THEN [key |-> k, val |-> v] ELSE m[i]]
    ELSE Append(m, [key |-> k, val |-> v])

\* roomUsers.get(roomId) || []
UsersOf(roomId) == IF MapHas(roomUsers, roomId) THEN MapGet(roomUsers, roomId) ELSE <<>>

(***************************************************************************)
(* Socket.io broadcast operators                                           *)
(***************************************************************************)
\* io.to(roomId): every socket in the room
IoTo(rooms, roomId) == rooms[roomId]

SocketToMembersOnly(rooms, socket, roomId) ==
  IF socket \in rooms[roomId] THEN rooms[roomId] \ {socket} ELSE {}
SocketToIncludingSender(rooms, socket, roomId) == rooms[roomId]
\* socket.to(roomId): every socket in the room except the sender
SocketTo(rooms, socket, roomId) == rooms[roomId] \ {socket}

\* The sets of addressees a packet can reach: a volatile packet is dropped
\* for any addressee whose transport is not ready, a normal one is buffered.
EmitOutcomes(targets, volatile) == IF volatile THEN SUBSET targets ELSE {targets}

CursorMoveVolatile == TRUE      \* socket.volatile.to(roomId).emit("cursor-move", ...)
ElementUpdateVolatileMutant == TRUE
ElementUpdateVolatile == FALSE  \* socket.to(roomId).emit("element-update", ...)

\* one more client event within the budget
CountStep == steps < MaxSteps /\ steps' = steps + 1

NoEvent == [event |-> "none", socket |-> "-", roomId |-> RoomId("-"), userId |-> "-", replaced |-> FALSE]

(***************************************************************************)
(* io.on("connection")                                                     *)
(***************************************************************************)
Connect(s) ==
  /\ connState[s] = "idle"
  /\ connState' = [connState EXCEPT ![s] = "connected"]
  /\ lastEvent' = [NoEvent EXCEPT !.event = "connection", !.socket = s]
  /\ lastEmits' = <<>>
  /\ UNCHANGED <<socketRooms, roomUsers, inbox, sendSeq, steps>>
  /\ RelayFrame

(***************************************************************************)
(* socket.on("join-room")                                                  *)
(***************************************************************************)
JoinedUsersNoFilter(currentUsers, userId, socket) ==
  Append(currentUsers, [id |-> userId, socketId |-> socket, isActive |-> TRUE])
\* filteredUsers = currentUsers.filter(u => u.id !== user.id); push(newUser)
JoinedUsers(currentUsers, userId, socket) ==
  Append(SelectSeq(currentUsers, LAMBDA u : u.id # userId),
         [id |-> userId, socketId |-> socket, isActive |-> TRUE])

JoinPresenceStale(rooms, socket, roomId, currentUsers, filteredUsers) ==
  [event |-> "presence-update", to |-> SocketTo(rooms, socket, roomId),
   payload |-> currentUsers]
\* io.to(roomId).emit("presence-update", filteredUsers)
JoinPresence(rooms, socket, roomId, currentUsers, filteredUsers) ==
  [event |-> "presence-update", to |-> IoTo(rooms, roomId), payload |-> filteredUsers]

JoinRoom(s, drawingId, userId) ==
  /\ connState[s] = "connected"
  /\ LET roomId == RoomId(drawingId)
         currentUsers == UsersOf(roomId)
         filteredUsers == JoinedUsers(currentUsers, userId, s)
         rooms == [socketRooms EXCEPT ![roomId] = @ \cup {s}]   \* socket.join(roomId)
     IN /\ socketRooms' = rooms
        /\ roomUsers' = MapSet(roomUsers, roomId, filteredUsers)
        /\ lastEmits' = <<JoinPresence(rooms, s, roomId, currentUsers, filteredUsers)>>
        /\ lastEvent' = [event |-> "join-room", socket |-> s, roomId |-> roomId,
                         userId |-> userId,
                         replaced |-> \E i \in 1..Len(currentUsers) :
                                         currentUsers[i].id = userId]
  /\ CountStep
  /\ UNCHANGED <<connState, inbox, sendSeq>>
  /\ RelayFrame

(***************************************************************************)
(* socket.on("cursor-move") and socket.on("element-update")                *)
(***************************************************************************)
RelayRegisters(s, drawingId, event, volatile) ==
  /\ connState[s] = "connected"
  /\ LET roomId == RoomId(drawingId)
         data == [event |-> event, drawingId |-> drawingId, from |-> s,
                  n |-> sendSeq[s] + 1]
         targets == SocketTo(socketRooms, s, roomId)
         users == JoinedUsers(UsersOf(roomId), s, s)
     IN /\ \E reached \in EmitOutcomes(targets, volatile) :
             inbox' = [t \in Sockets |->
                         IF t \in reached THEN Append(inbox[t], data) ELSE inbox[t]]
        /\ roomUsers' = MapSet(roomUsers, roomId, users)
        /\ lastEmits' = <<[event |-> event, to |-> targets, payload |-> data]>>
        /\ lastEvent' = [NoEvent EXCEPT !.event = event, !.socket = s, !.roomId = roomId]
  /\ sendSeq' = [sendSeq EXCEPT ![s] = @ + 1]
  /\ CountStep
  /\ UNCHANGED <<connState, socketRooms>>
  /\ RelayFrame
\* const roomId = `drawing_${data.drawingId}`; socket[.volatile].to(roomId).emit(event, data)
Relay(s, drawingId, event, volatile) ==
  /\ connState[s] = "connected"
  /\ LET roomId == RoomId(drawingId)
         data == [event |-> event, drawingId |-> drawingId, from |-> s,
                  n |-> sendSeq[s] + 1]
         targets == SocketTo(socketRooms, s, roomId)
     IN /\ \E reached \in EmitOutcomes(targets, volatile) :
             inbox' = [t \in Sockets |->
                         IF t \in reached THEN Append(inbox[t], data) ELSE inbox[t]]
        /\ lastEmits' = <<[event |-> event, to |-> targets, payload |-> data]>>
        /\ lastEvent' = [NoEvent EXCEPT !.event = event, !.socket = s, !.roomId = roomId]
  /\ sendSeq' = [sendSeq EXCEPT ![s] = @ + 1]
  /\ CountStep
  /\ UNCHANGED <<connState, socketRooms, roomUsers>>
  /\ RelayFrame

CursorMove(s, drawingId) == Relay(s, drawingId, "cursor-move", CursorMoveVolatile)

ElementUpdate(s, drawingId) == Relay(s, drawingId, "element-update", ElementUpdateVolatile)

(***************************************************************************)
(* socket.on("user-activity")                                              *)
(***************************************************************************)
HasSocket(users, socket) == \E i \in 1..Len(users) : users[i].socketId = socket
FindIndexFirstRecord(users, socket) == 1
\* users.findIndex(u => u.socketId === socket.id), 1-based
FindIndex(users, socket) ==
  CHOOSE i \in 1..Len(users) :
    /\ users[i].socketId = socket
    /\ \A j \in 1..(i - 1) : users[j].socketId # socket

UserActivity(s, drawingId, isActive) ==
  /\ connState[s] = "connected"
  /\ LET roomId == RoomId(drawingId)
         users == UsersOf(roomId)
     IN IF MapHas(roomUsers, roomId) /\ HasSocket(users, s)
          THEN LET updated == [users EXCEPT ![FindIndex(users, s)].isActive = isActive]
               IN /\ roomUsers' = MapSet(roomUsers, roomId, updated)
                  /\ lastEmits' = <<[event |-> "presence-update",
                                     to |-> IoTo(socketRooms, roomId),
                                     payload |-> updated]>>
          ELSE /\ roomUsers' = roomUsers
               /\ lastEmits' = <<>>
  /\ lastEvent' = [NoEvent EXCEPT !.event = "user-activity", !.socket = s,
                                  !.roomId = RoomId(drawingId)]
  /\ CountStep
  /\ UNCHANGED <<connState, socketRooms, inbox, sendSeq>>
  /\ RelayFrame

(***************************************************************************)
(* socket.on("disconnect")                                                 *)
(***************************************************************************)
\* users.splice(index, 1)
Splice(users, index) == SubSeq(users, 1, index - 1) \o SubSeq(users, index + 1, Len(users))

\* the list of one room after the handler visited it
AfterDisconnect(users, socket) ==
  IF HasSocket(users, socket) THEN Splice(users, FindIndex(users, socket)) ELSE users

RECURSIVE DisconnectEmits(_, _, _, _)
\* the presence-update emits of roomUsers.forEach, from entry i on
DisconnectEmits(m, i, socket, rooms) ==
  IF i > Len(m) THEN <<>>
  ELSE (IF HasSocket(m[i].val, socket)
          THEN <<[event |-> "presence-update", to |-> IoTo(rooms, m[i].key),
                  payload |-> AfterDisconnect(m[i].val, socket)]>>
          ELSE <<>>) \o DisconnectEmits(m, i + 1, socket, rooms)

Disconnect(s) ==
  /\ connState[s] = "connected"
  /\ connState' = [connState EXCEPT ![s] = "disconnected"]
  \* Socket.io has the socket leave its rooms before "disconnect" is emitted
  /\ socketRooms' = [r \in RoomIds |-> socketRooms[r] \ {s}]
  /\ roomUsers' = [i \in 1..Len(roomUsers) |->
                     [key |-> roomUsers[i].key,
                      val |-> AfterDisconnect(roomUsers[i].val, s)]]
  /\ lastEmits' = DisconnectEmits(roomUsers, 1, s, socketRooms')
  /\ lastEvent' = [NoEvent EXCEPT !.event = "disconnect", !.socket = s]
  /\ CountStep
  /\ UNCHANGED <<inbox, sendSeq>>
  /\ RelayFrame

RelayNext ==
  \/ \E s \in Sockets : Connect(s)
  \/ \E s \in Sockets, d \in DrawingIds, u \in UserIds : JoinRoom(s, d, u)
  \/ \E s \in Sockets, d \in DrawingIds : CursorMove(s, d)
  \/ \E s \in Sockets, d \in DrawingIds : ElementUpdate(s, d)
  \/ \E s \in Sockets, d \in DrawingIds, a \in BOOLEAN : UserActivity(s, d, a)
  \/ \E s \in Sockets : Disconnect(s)


(***************************************************************************)
(* Wall clock (Date.now()), shared by the rate limiter and the cache.      *)
(* One tick of the model clock is half a rate-limit window.                *)
(***************************************************************************)
\* Date.now() never exceeds MaxNow in the model
MaxNow == 6

Tick == now < MaxNow /\ now' = now + 1

(***************************************************************************)
(* Rate limiting middleware                                                *)
(***************************************************************************)
\* the middleware answers at most MaxRequests requests
MaxRequests == 6

\* 15 * 60 * 1000 ms, two ticks of the model clock
RATE_LIMIT_WINDOW == 2
\* process.env.RATE_LIMIT_MAX_REQUESTS, a small configured maximum
RATE_LIMIT_MAX_REQUESTS == 2

None == "none"
Addresses == {"a1", "a2"}

ClientKeyShared(reqIp, remoteAddress) == "unknown"
\* req.ip || req.connection.remoteAddress || "unknown"
ClientKey(reqIp, remoteAddress) ==
  IF reqIp # None THEN reqIp
  ELSE IF remoteAddress # None THEN remoteAddress
  ELSE "unknown"

\* !clientData || now > clientData.resetTime
StartsWindow(m, ip, t) == ip \notin DOMAIN m \/ t > m[ip].resetTime

LimitReachedOffByOne(count) == count > RATE_LIMIT_MAX_REQUESTS
\* clientData.count >= RATE_LIMIT_MAX_REQUESTS
LimitReached(count) == count >= RATE_LIMIT_MAX_REQUESTS

\* The window a request history defines, independently of the stored record:
\* it starts with the first request after the previous window has elapsed.
ObservedWindow(w, t) ==
  IF w.seen = 0 \/ t > w.start + RATE_LIMIT_WINDOW
    THEN [start |-> t, seen |-> 1]
    ELSE [start |-> w.start, seen |-> w.seen + 1]

RateRequestSliding(reqIp, remoteAddress) ==
  LET ip == ClientKey(reqIp, remoteAddress) IN
  /\ requests < MaxRequests
  /\ requests' = requests + 1
  /\ window' = [window EXCEPT ![ip] = ObservedWindow(window[ip], now)]
  /\ IF StartsWindow(requestCounts, ip, now)
       THEN /\ requestCounts' =
                 [k \in DOMAIN requestCounts \cup {ip} |->
                    IF k = ip THEN [count |-> 1, resetTime |-> now + RATE_LIMIT_WINDOW]
                    ELSE requestCounts[k]]
            /\ lastDecision' = [ip |-> ip, status |-> 200]
            /\ UNCHANGED rejections
       ELSE IF LimitReached(requestCounts[ip].count)
         THEN /\ lastDecision' = [ip |-> ip, status |-> 429]
              /\ rejections' = [rejections EXCEPT ![ip] = @ + 1]
              /\ UNCHANGED requestCounts
         ELSE /\ requestCounts' = [requestCounts EXCEPT ![ip].count = @ + 1,
                                     ![ip].resetTime = now + RATE_LIMIT_WINDOW]
              /\ lastDecision' = [ip |-> ip, status |-> 200]
              /\ UNCHANGED rejections
  /\ UNCHANGED now
  /\ RateFrame
\* the rate limiting middleware answers one request
RateRequest(reqIp, remoteAddress) ==
  LET ip == ClientKey(reqIp, remoteAddress) IN
  /\ requests < MaxRequests
  /\ requests' = requests + 1
  /\ window' = [window EXCEPT ![ip] = ObservedWindow(window[ip], now)]
  /\ IF StartsWindow(requestCounts, ip, now)
       THEN /\ requestCounts' =
                 [k \in DOMAIN requestCounts \cup {ip} |->
                    IF k = ip THEN [count |-> 1, resetTime |-> now + RATE_LIMIT_WINDOW]
                    ELSE requestCounts[k]]
            /\ lastDecision' = [ip |-> ip, status |-> 200]     \* next()
            /\ UNCHANGED rejections
       ELSE IF LimitReached(requestCounts[ip].count)
         THEN /\ lastDecision' = [ip |-> ip, status |-> 429]
              /\ rejections' = [rejections EXCEPT ![ip] = @ + 1]
              /\ UNCHANGED requestCounts
         ELSE /\ requestCounts' = [requestCounts EXCEPT ![ip].count = @ + 1]
              /\ lastDecision' = [ip |-> ip, status |-> 200]   \* next()
              /\ UNCHANGED rejections
  /\ UNCHANGED now
  /\ RateFrame

RateSweepAtReset ==
  /\ requestCounts' = [ip \in {k \in DOMAIN requestCounts :
                                  ~(now >= requestCounts[k].resetTime)} |->
                         requestCounts[ip]]
  /\ UNCHANGED <<window, lastDecision, rejections, requests, now>>
  /\ RateFrame
\* setInterval(..., 5 * 60 * 1000): delete the records with now > resetTime
RateSweep ==
  /\ requestCounts' = [ip \in {k \in DOMAIN requestCounts :
                                  ~(now > requestCounts[k].resetTime)} |->
                         requestCounts[ip]]
  /\ UNCHANGED <<window, lastDecision, rejections, requests, now>>
  /\ RateFrame

RateTick == Tick /\ UNCHANGED rateVars /\ RateFrame

EmptyMap == [k \in {} |-> 0]

RateNext ==
  \/ \E reqIp \in Addresses \cup {None}, remoteAddress \in Addresses \cup {None} :
       RateRequest(reqIp, remoteAddress)
  \/ RateSweep
  \/ RateTick

(***************************************************************************)
(* Drawings response cache, GET /drawings and the mutating handlers        *)
(***************************************************************************)
\* DRAWINGS_CACHE_TTL_MS: 5000 ms by default, two ticks of the model clock
DRAWINGS_CACHE_TTL_MS == 2

\* at most MaxStarted requests are accepted
MaxStarted == 3

GetSlots == {"g1", "g2"}
MutSlots == {"m1"}

\* (search, collectionId, includeData) of the listing requests
Queries == {[search |-> None, collectionId |-> None, includeData |-> None],
            [search |-> " a ", collectionId |-> "null", includeData |-> "True"]}

\* String.prototype.trim on the search strings of the model
Trim(s) == CASE s = " a " -> "a" [] s = "  " -> "" [] OTHER -> s

\* typeof search === "string" && search.trim().length > 0 ? search.trim() : undefined
SearchTerm(search) == IF search # None /\ Trim(search) # "" THEN Trim(search) ELSE None

CollectionFilterKey(collectionId) ==
  IF collectionId = "null" THEN <<"null", "">>
  ELSE IF collectionId # None THEN <<"id:", collectionId>>   \* `id:${collectionId}`
  ELSE <<"default", "">>

\* String.prototype.toLowerCase on the includeData strings of the model
ToLowerCase(s) == CASE s \in {"TRUE", "True"} -> "true" [] OTHER -> s

\* typeof includeData === "string"
\*   ? includeData.toLowerCase() === "true" || includeData === "1" : false
ShouldIncludeData(includeData) ==
  IF includeData # None THEN ToLowerCase(includeData) = "true" \/ includeData = "1"
  ELSE FALSE

\* JSON.stringify([searchTerm, collectionFilter, includeData ? "full" : "summary"])
buildDrawingsCacheKey(searchTerm, collectionFilter, includeData) ==
  <<searchTerm, collectionFilter, IF includeData THEN "full" ELSE "summary">>

CacheKeyOf(q) ==
  buildDrawingsCacheKey(IF SearchTerm(q.search) = None THEN "" ELSE SearchTerm(q.search),
                        CollectionFilterKey(q.collectionId),
                        ShouldIncludeData(q.includeData))

CacheKeys == {CacheKeyOf(q) : q \in Queries}

\* Buffer.from(JSON.stringify(payload))
SerializeBody(payload) == <<"json", payload>>

CacheFreshStrictlyBefore(key, t) ==
  key \in DOMAIN drawingsCache /\ t < drawingsCache[key].expiresAt
\* getCachedDrawingsBody: the entry is served while Date.now() <= expiresAt
CacheFresh(key, t) == key \in DOMAIN drawingsCache /\ ~(t > drawingsCache[key].expiresAt)

CacheWithout(keys) == [k \in DOMAIN drawingsCache \ keys |-> drawingsCache[k]]

\* drawingsCache.set(key, { body, expiresAt: Date.now() + DRAWINGS_CACHE_TTL_MS })
CachePut(key, body, t) ==
  [k \in DOMAIN drawingsCache \cup {key} |->
     IF k = key THEN [body |-> body, expiresAt |-> t + DRAWINGS_CACHE_TTL_MS]
     ELSE drawingsCache[k]]

NoKey == <<"", <<"", "">>, "">>
\* path.resolve(__dirname, "../prisma/dev.db"), the file of the prisma datasource
dbPath == <<"prisma/dev.db", 0>>

NoRows == [where |-> NoKey, rev |-> 0, db |-> ""]
IdleGet == [pc |-> "idle", key |-> NoKey, rows |-> NoRows]
NoGet == [slot |-> None, key |-> NoKey, cache |-> None, status |-> 0,
          body |-> <<"", NoRows>>, floor |-> 0, fault |-> FALSE]

\* GET /drawings up to the cache lookup: a hit is answered, a miss awaits findMany
GetLookup(g, q) ==
  LET key == CacheKeyOf(q) IN
  /\ getReq[g].pc \in {"idle", "done"}
  /\ started < MaxStarted
  /\ started' = started + 1
  /\ IF CacheFresh(key, now)
       THEN /\ getReq' = [getReq EXCEPT ![g] = [pc |-> "done", key |-> key, rows |-> NoRows]]
            /\ lastGet' = [slot |-> g, key |-> key, cache |-> "HIT", status |-> 200,
                           body |-> drawingsCache[key].body, floor |-> floorRev[key],
                           fault |-> FALSE]
            /\ UNCHANGED drawingsCache
       ELSE /\ getReq' = [getReq EXCEPT ![g] = [pc |-> "findMany", key |-> key, rows |-> NoRows]]
            /\ drawingsCache' = CacheWithout({key})   \* drawingsCache.delete(key) when stale
            /\ UNCHANGED lastGet
  /\ UNCHANGED <<storeRev, mutReq, floorRev, completedRev, now>>
  /\ CacheFrame

\* the store executes prisma.drawing.findMany(queryOptions)
GetFindMany(g) ==
  /\ getReq[g].pc = "findMany"
  /\ getReq' = [getReq EXCEPT ![g].pc = "resolved",
                              ![g].rows = [where |-> getReq[g].key, rev |-> storeRev,
                                           db |-> files[dbPath].id]]
  /\ UNCHANGED <<drawingsCache, storeRev, mutReq, floorRev, completedRev, lastGet,
                 started, now>>
  /\ CacheFrame

\* the handler resumes: cacheDrawingsResponse(cacheKey, responsePayload); res.send(body)
GetRespond(g) ==
  /\ getReq[g].pc = "resolved"
  /\ LET body == SerializeBody(getReq[g].rows) IN
       /\ drawingsCache' = CachePut(getReq[g].key, body, now)
       /\ lastGet' = [slot |-> g, key |-> getReq[g].key, cache |-> "MISS", status |-> 200,
                      body |-> body, floor |-> floorRev[getReq[g].key], fault |-> FALSE]
  /\ getReq' = [getReq EXCEPT ![g].pc = "done"]
  /\ UNCHANGED <<storeRev, mutReq, floorRev, completedRev, started, now>>
  /\ CacheFrame

\* findMany rejects: res.status(500).json({ error: "Failed to fetch drawings" })
GetFail(g) ==
  /\ getReq[g].pc = "findMany"
  /\ getReq' = [getReq EXCEPT ![g].pc = "done"]
  /\ lastGet' = [NoGet EXCEPT !.slot = g, !.key = getReq[g].key, !.status = 500]
  /\ UNCHANGED <<drawingsCache, storeRev, mutReq, floorRev, completedRev, started, now>>
  /\ CacheFrame

\* cacheDrawingsResponse throws (JSON.stringify or Buffer.from fails on the
\* payload) before drawingsCache.set: the catch of the handler answers 500
GetRespondThrows(g) ==
  /\ getReq[g].pc = "resolved"
  /\ getReq' = [getReq EXCEPT ![g].pc = "done"]
  /\ lastGet' = [NoGet EXCEPT !.slot = g, !.key = getReq[g].key, !.status = 500,
                              !.fault = TRUE]
  /\ UNCHANGED <<drawingsCache, storeRev, mutReq, floorRev, completedRev, started, now>>
  /\ CacheFrame

\* the handlers that write drawings or collections
Mutations == {"POST /drawings", "PUT /drawings/:id", "DELETE /drawings/:id",
              "POST /drawings/:id/duplicate", "POST /collections",
              "PUT /collections/:id", "DELETE /collections/:id"}

\* whether the handler calls invalidateDrawingsCache() after its write
InvalidatesCache(op) == op \notin {"POST /collections", "PUT /collections/:id"}

IdleMut == [pc |-> "idle", rev |-> 0, cached |-> {}, op |-> None]

\* a mutating handler reaches its await on the store
MutStart(m, op) ==
  /\ mutReq[m].pc \in {"idle", "done"}
  /\ started < MaxStarted
  /\ started' = started + 1
  /\ mutReq' = [mutReq EXCEPT ![m] = [pc |-> "await", rev |-> 0, cached |-> {}, op |-> op]]
  /\ UNCHANGED <<drawingsCache, storeRev, getReq, floorRev, completedRev, lastGet, now>>
  /\ CacheFrame

\* the store applies the write (prisma.drawing.update and the like)
MutWrite(m) ==
  /\ mutReq[m].pc = "await"
  /\ storeRev' = storeRev + 1
  /\ mutReq' = [mutReq EXCEPT ![m] = [pc |-> "written", rev |-> storeRev + 1,
                                      cached |-> DOMAIN drawingsCache,
                                      op |-> mutReq[m].op]]
  /\ UNCHANGED <<drawingsCache, getReq, floorRev, completedRev, lastGet, started, now>>
  /\ CacheFrame

\* the store rejects the write: the catch block answers 500, nothing is invalidated
MutReject(m) ==
  /\ mutReq[m].pc = "await"
  /\ mutReq' = [mutReq EXCEPT ![m].pc = "done", ![m].op = None]
  /\ UNCHANGED <<drawingsCache, storeRev, getReq, floorRev, completedRev, lastGet,
                 started, now>>
  /\ CacheFrame

Max(a, b) == IF a >= b THEN a ELSE b

\* the handler resumes after the await: invalidateDrawingsCache(); res.json(...)
MutInvalidate(m) ==
  /\ mutReq[m].pc = "written"
  /\ InvalidatesCache(mutReq[m].op)
  /\ drawingsCache' = EmptyMap                 \* drawingsCache.clear()
  /\ mutReq' = [mutReq EXCEPT ![m].pc = "done", ![m].op = None]
  /\ floorRev' = [k \in CacheKeys |->
                    IF k \in mutReq[m].cached THEN Max(floorRev[k], mutReq[m].rev)
                    ELSE floorRev[k]]
  /\ completedRev' = Max(completedRev, mutReq[m].rev)
  /\ UNCHANGED <<storeRev, getReq, lastGet, started, now>>
  /\ CacheFrame

\* POST /collections, PUT /collections/:id: the handler resumes after the
\* await and answers res.json(...) without touching the cache
MutRespond(m) ==
  /\ mutReq[m].pc = "written"
  /\ ~InvalidatesCache(mutReq[m].op)
  /\ mutReq' = [mutReq EXCEPT ![m].pc = "done", ![m].op = None]
  /\ UNCHANGED <<drawingsCache, storeRev, getReq, floorRev, completedRev, lastGet,
                 started, now>>
  /\ CacheFrame

CacheSweepAtExpiry ==
  /\ drawingsCache' = CacheWithout({k \in DOMAIN drawingsCache :
                                      now >= drawingsCache[k].expiresAt})
  /\ UNCHANGED <<storeRev, getReq, mutReq, floorRev, completedRev, lastGet, started, now>>
  /\ CacheFrame
\* setInterval(..., 60_000): delete the entries with now > expiresAt
CacheSweep ==
  /\ drawingsCache' = CacheWithout({k \in DOMAIN drawingsCache :
                                      now > drawingsCache[k].expiresAt})
  /\ UNCHANGED <<storeRev, getReq, mutReq, floorRev, completedRev, lastGet, started, now>>
  /\ CacheFrame

CacheTick == Tick /\ UNCHANGED cacheVars /\ CacheFrame

CacheNext ==
  \/ \E g \in GetSlots, q \in Queries : GetLookup(g, q)
  \/ \E g \in GetSlots : GetFindMany(g)
  \/ \E g \in GetSlots : GetRespond(g)
  \/ \E g \in GetSlots : GetFail(g)
  \/ \E m \in MutSlots, op \in Mutations : MutStart(m, op)
  \/ \E m \in MutSlots : MutWrite(m)
  \/ \E m \in MutSlots : MutReject(m)
  \/ \E m \in MutSlots : MutInvalidate(m)
  \/ \E m \in MutSlots : MutRespond(m)
  \/ CacheSweep
  \/ CacheTick

(***************************************************************************)
(* SQLite import: POST /import/sqlite                                      *)
(***************************************************************************)
\* at most MaxImports import requests are handled, one after the other
MaxImports == 2

\* a path with no file
Absent == [hdr |-> "", sound |-> FALSE, whole |-> FALSE, id |-> "absent"]

\* first 16 bytes "SQLite format 3\0"
SqliteHeader == "SQLite format 3"

\* file contents: leading bytes, whether PRAGMA integrity_check passes,
\* whether all bytes are written, and which file it is
Content(hdr, sound, id) == [hdr |-> hdr, sound |-> sound, whole |-> TRUE, id |-> id]
Partial(c) == [c EXCEPT !.whole = FALSE]

Uploads == {Content(SqliteHeader, TRUE, "new"), Content(SqliteHeader, FALSE, "damaged"),
            Content("other", TRUE, "text"), Content("short", TRUE, "tiny")}
OldStore == Content(SqliteHeader, TRUE, "old")
OldBackup == Content(SqliteHeader, TRUE, "older")

backupPath == <<"prisma/dev.db.backup", 0>>
\* req.file.path chosen by multer for request r
OriginalPath(r) == <<"uploads/", r>>
\* path.join(uploadDir, `temp-${Date.now()}-${random}.db`) of request r
StagedPath(r) == <<"uploads/temp-", r>>
Paths == {dbPath, backupPath} \cup {OriginalPath(r) : r \in 1..MaxImports}
           \cup {StagedPath(r) : r \in 1..MaxImports}

Exists(p) == files[p] # Absent

\* fsPromises.copyFile(source, destination): the outcomes of a failed copy
\* (destination untouched, removed, or left partially written)
CopyFailures(source, destination) ==
  {files[destination], Absent, Partial(files[source])}

\* removeFileIfExists(filePath): unlink, errors are logged and swallowed
RemoveFileIfExists(f, p) == [f EXCEPT ![p] = Absent]

\* source and destination of the moveFile call in progress
MoveSource == IF impPc = "stage" THEN OriginalPath(run) ELSE StagedPath(run)
MoveDestination == IF impPc = "stage" THEN StagedPath(run) ELSE dbPath
AfterMoveSkipsVerify == IF impPc = "stage" THEN "backup" ELSE "commit"
\* where the handler continues when moveFile returns / throws
AfterMove == IF impPc = "stage" THEN "verify" ELSE "commit"
AfterMoveThrows == IF impPc = "stage" THEN "stageFailed" ELSE "swapFailed"

Moving == impPc \in {"stage", "swap"}
\* the step a completed moveFile finishes
Moved == IF impPc = "stage" THEN "staged" ELSE "swapped"

\* multer stored the upload and the handler starts
ImportUpload(c) ==
  /\ impPc \in {"idle", "done"}
  /\ run < MaxImports
  /\ run' = run + 1
  /\ uploaded' = c
  /\ before' = [db |-> files[dbPath], backup |-> files[backupPath]]
  /\ files' = [files EXCEPT ![OriginalPath(run + 1)] = c]
  /\ response' = 0
  /\ impPc' = "stage"
  /\ mvPc' = "rename"
  /\ endpoint' = "import"
  /\ UNCHANGED <<drawingsCache, workerVars>>
  /\ trail' = <<>>
  /\ ImportFrame

\* no file in the request: res.status(400).json({ error: "No file uploaded" })
ImportNoFile ==
  /\ impPc \in {"idle", "done"}
  /\ run < MaxImports
  /\ run' = run + 1
  /\ uploaded' = Absent
  /\ before' = [db |-> files[dbPath], backup |-> files[backupPath]]
  /\ response' = 400
  /\ impPc' = "done"
  /\ endpoint' = "import"
  /\ UNCHANGED <<files, mvPc, drawingsCache, workerVars>>
  /\ trail' = <<>>
  /\ ImportFrame

\* moveFile: await fsPromises.rename(source, destination) succeeds
MoveRename ==
  /\ Moving /\ mvPc = "rename"
  /\ files' = [files EXCEPT ![MoveDestination] = files[MoveSource],
                            ![MoveSource] = Absent]
  /\ impPc' = AfterMove
  /\ mvPc' = "none"
  /\ UNCHANGED <<run, uploaded, before, response, drawingsCache>>
  /\ trail' = Append(trail, Moved)
  /\ HandlerFrame

\* rename fails with a code other than EXDEV: throw error
MoveRenameThrows ==
  /\ Moving /\ mvPc = "rename"
  /\ impPc' = AfterMoveThrows
  /\ mvPc' = "none"
  /\ UNCHANGED <<files, run, uploaded, before, response, drawingsCache>>
  /\ UNCHANGED trail
  /\ HandlerFrame

\* rename fails with EXDEV: the copy-then-delete fallback starts.  Upload and
\* staged file are both in uploadDir, so only the swap can cross devices.
MoveRenameExdev ==
  /\ impPc = "swap" /\ mvPc = "rename"
  /\ mvPc' = "unlinkDestination"
  /\ UNCHANGED <<files, impPc, run, uploaded, before, response, drawingsCache>>
  /\ UNCHANGED trail
  /\ HandlerFrame

\* await fsPromises.unlink(destination).catch(ENOENT is ignored)
MoveUnlinkDestination ==
  /\ Moving /\ mvPc = "unlinkDestination"
  /\ files' = [files EXCEPT ![MoveDestination] = Absent]
  /\ mvPc' = "copyFile"
  /\ UNCHANGED <<impPc, run, uploaded, before, response, drawingsCache>>
  /\ UNCHANGED trail
  /\ HandlerFrame

\* unlink(destination) fails with a code other than ENOENT: throw unlinkError
MoveUnlinkDestinationThrows ==
  /\ Moving /\ mvPc = "unlinkDestination"
  /\ Exists(MoveDestination)
  /\ impPc' = AfterMoveThrows
  /\ mvPc' = "none"
  /\ UNCHANGED <<files, run, uploaded, before, response, drawingsCache>>
  /\ UNCHANGED trail
  /\ HandlerFrame

\* await fsPromises.copyFile(source, destination): the destination is being written
MoveCopyBegin ==
  /\ Moving /\ mvPc = "copyFile"
  /\ files' = [files EXCEPT ![MoveDestination] = Partial(files[MoveSource])]
  /\ mvPc' = "copying"
  /\ UNCHANGED <<impPc, run, uploaded, before, response, drawingsCache>>
  /\ UNCHANGED trail
  /\ HandlerFrame

\* the copy completes
MoveCopyEnd ==
  /\ Moving /\ mvPc = "copying"
  /\ files' = [files EXCEPT ![MoveDestination] = files[MoveSource]]
  /\ mvPc' = "unlinkSource"
  /\ UNCHANGED <<impPc, run, uploaded, before, response, drawingsCache>>
  /\ UNCHANGED trail
  /\ HandlerFrame

\* the copy fails before or while the destination is written: copyFile rejects
MoveCopyThrows ==
  /\ Moving /\ mvPc \in {"copyFile", "copying"}
  /\ \E c \in CopyFailures(MoveSource, MoveDestination) :
       files' = [files EXCEPT ![MoveDestination] = c]
  /\ impPc' = AfterMoveThrows
  /\ mvPc' = "none"
  /\ UNCHANGED <<run, uploaded, before, response, drawingsCache>>
  /\ UNCHANGED trail
  /\ HandlerFrame

\* await fsPromises.unlink(source) succeeds: moveFile returns
MoveUnlinkSource ==
  /\ Moving /\ mvPc = "unlinkSource"
  /\ files' = [files EXCEPT ![MoveSource] = Absent]
  /\ impPc' = AfterMove
  /\ mvPc' = "none"
  /\ UNCHANGED <<run, uploaded, before, response, drawingsCache>>
  /\ trail' = Append(trail, Moved)
  /\ HandlerFrame

\* unlink(source) rejects: moveFile throws after the destination was written
MoveUnlinkSourceThrows ==
  /\ Moving /\ mvPc = "unlinkSource"
  /\ impPc' = AfterMoveThrows
  /\ mvPc' = "none"
  /\ UNCHANGED <<files, run, uploaded, before, response, drawingsCache>>
  /\ UNCHANGED trail
  /\ HandlerFrame

\* catch of the staging moveFile: remove both files, answer 500
ImportStageFailed ==
  /\ impPc = "stageFailed"
  /\ files' = RemoveFileIfExists(RemoveFileIfExists(files, OriginalPath(run)),
                                 StagedPath(run))
  /\ response' = 500
  /\ impPc' = "done"
  /\ UNCHANGED <<mvPc, run, uploaded, before, drawingsCache>>
  /\ UNCHANGED trail
  /\ HandlerFrame

\* the file verifyDatabaseIntegrityAsync is called on: the staged copy of an
\* import, req.file.path of a verify request
VerifiedPath == IF endpoint = "verify" THEN OriginalPath(run) ELSE StagedPath(run)

AfterVerifyAlwaysImports(isValid) == IF isValid THEN "backup" ELSE "rejected"
\* where the handler continues with the result of verifyDatabaseIntegrityAsync
AfterVerify(isValid) ==
  IF endpoint = "verify"
    THEN IF isValid THEN "valid" ELSE "invalid"
    ELSE IF isValid THEN "backup" ELSE "rejected"

validateSqliteHeaderAnyFile(c) == c # Absent
\* validateSqliteHeader(filePath): 16 bytes read and equal to the magic header
validateSqliteHeader(c) == c # Absent /\ c.hdr = SqliteHeader

\* verifyDatabaseIntegrityAsync: the header check fails, Promise.resolve(false)
ImportHeaderInvalid ==
  /\ impPc = "verify"
  /\ ~validateSqliteHeader(files[VerifiedPath])
  /\ impPc' = AfterVerify(FALSE)
  /\ UNCHANGED <<files, mvPc, run, uploaded, before, response, drawingsCache>>
  /\ UNCHANGED trail
  /\ HandlerFrame

NoVerdict == [run |-> 0, calls |-> 0, by |-> "none", result |-> FALSE]

\* the header check passes: new Worker(...), settled = false, setTimeout(..., 10000)
ImportWorkerStart ==
  /\ impPc = "verify"
  /\ validateSqliteHeader(files[VerifiedPath])
  /\ impPc' = "worker"
  /\ worker' = [state |-> "running", posted |-> FALSE]
  /\ settled' = FALSE
  /\ timeoutHandle' = "armed"
  /\ verdict' = [NoVerdict EXCEPT !.run = run]
  /\ UNCHANGED <<files, mvPc, run, uploaded, before, response, drawingsCache, endpoint>>
  /\ trail' = Append(trail, "headerValidated")
  /\ ImportFrame

\* new Worker(...) throws (ERR_WORKER_INIT_FAILED): the promise executor throws,
\* the await rejects and the outer catch removes req.file.path and answers 500
ImportWorkerThrows ==
  /\ impPc = "verify"
  /\ validateSqliteHeader(files[VerifiedPath])
  /\ files' = RemoveFileIfExists(files, OriginalPath(run))
  /\ response' = 500
  /\ impPc' = "done"
  /\ UNCHANGED <<mvPc, run, uploaded, before, drawingsCache>>
  /\ UNCHANGED trail
  /\ HandlerFrame

WorkerOutcomes == {"message", "error", "exit", "timeout"}

\* the integrity check the db-verify worker runs on the file
IntegrityCheck(c) == c.sound /\ c.whole

WorkerVerdictTimeoutPasses(outcome, c) ==
  outcome = "timeout" \/ (outcome = "message" /\ IntegrityCheck(c))
\* the argument of finish: the worker's message carries its verdict, every
\* other outcome (error, non-zero exit, 10 s timeout) passes false
WorkerVerdict(outcome, c) == outcome = "message" /\ IntegrityCheck(c)

AlreadySettledNever(flag) == FALSE
\* if (settled) return;
AlreadySettled(flag) == flag

\* finish(result): settled = true; clearTimeout(timeoutHandle); resolve(result).
\* The first resolve resumes the handler at "if (!isValid)".
Finish(outcome) ==
  IF AlreadySettled(settled)
    THEN UNCHANGED <<settled, timeoutHandle, verdict, impPc, trail>>
    ELSE /\ settled' = TRUE
         /\ timeoutHandle' = "cleared"
         /\ verdict' = [verdict EXCEPT !.calls = @ + 1, !.by = outcome,
                                       !.result = WorkerVerdict(outcome, uploaded)]
         /\ impPc' = IF impPc # "worker" THEN impPc
                     ELSE AfterVerify(WorkerVerdict(outcome, uploaded))
         /\ trail' = IF impPc = "worker" /\ WorkerVerdict(outcome, uploaded)
                       THEN Append(trail, "deepValidated") ELSE trail

WorkerQuiet ==
  UNCHANGED <<files, mvPc, run, uploaded, before, response, drawingsCache, endpoint>>

\* worker.on("message", isValid => finish(isValid)); a message the worker
\* posted before it was terminated is still delivered
WorkerMessage ==
  /\ worker.state \in {"running", "terminating"}
  /\ ~worker.posted
  /\ worker' = [worker EXCEPT !.posted = TRUE]
  /\ Finish("message")
  /\ WorkerQuiet
  /\ ImportFrame

\* worker.on("error", ...): finish(false); the worker then exits with code 1
WorkerError ==
  /\ worker.state = "running"
  /\ worker' = [worker EXCEPT !.state = "exited"]
  /\ Finish("error")
  /\ WorkerQuiet
  /\ ImportFrame

\* worker.on("exit", code => { if (code !== 0) finish(false) })
WorkerExit(code) ==
  /\ worker.state \in {"running", "terminating"}
  /\ worker.state = "terminating" => code # 0
  /\ worker' = [worker EXCEPT !.state = "exited"]
  /\ IF code # 0 THEN Finish("exit")
     ELSE UNCHANGED <<settled, timeoutHandle, verdict, impPc, trail>>
  /\ WorkerQuiet
  /\ ImportFrame

\* the 10 s timer fires: worker.terminate(); finish(false)
WorkerTimeout ==
  /\ timeoutHandle = "armed"
  /\ worker' = [worker EXCEPT !.state = IF @ = "running" THEN "terminating" ELSE @]
  /\ Finish("timeout")
  /\ WorkerQuiet
  /\ ImportFrame

\* if (!isValid): remove the staged file, answer 400
ImportRejected ==
  /\ impPc = "rejected"
  /\ files' = RemoveFileIfExists(files, StagedPath(run))
  /\ response' = 400
  /\ impPc' = "done"
  /\ UNCHANGED <<mvPc, run, uploaded, before, drawingsCache>>
  /\ UNCHANGED trail
  /\ HandlerFrame

\* access(dbPath) succeeds and copyFile(dbPath, backupPath) completes
ImportBackup ==
  /\ impPc = "backup"
  /\ Exists(dbPath)
  /\ files' = [files EXCEPT ![backupPath] = files[dbPath]]
  /\ impPc' = "swap"
  /\ mvPc' = "rename"
  /\ UNCHANGED <<run, uploaded, before, response, drawingsCache>>
  /\ trail' = Append(trail, "backedUp")
  /\ HandlerFrame

\* access(dbPath) rejects: "Database doesn't exist, skip backup"
ImportBackupSkipped ==
  /\ impPc = "backup"
  /\ ~Exists(dbPath)
  /\ impPc' = "swap"
  /\ mvPc' = "rename"
  /\ UNCHANGED <<files, run, uploaded, before, response, drawingsCache>>
  /\ trail' = Append(trail, "backedUp")
  /\ HandlerFrame

\* copyFile(dbPath, backupPath) rejects: the same empty catch swallows it
ImportBackupFails ==
  /\ impPc = "backup"
  /\ Exists(dbPath)
  /\ \E c \in CopyFailures(dbPath, backupPath) :
       files' = [files EXCEPT ![backupPath] = c]
  /\ impPc' = "swap"
  /\ mvPc' = "rename"
  /\ UNCHANGED <<run, uploaded, before, response, drawingsCache>>
  /\ trail' = Append(trail, "backedUp")
  /\ HandlerFrame

\* catch of the swap: remove the staged file, answer 500
ImportSwapFailed ==
  /\ impPc = "swapFailed"
  /\ files' = RemoveFileIfExists(files, StagedPath(run))
  /\ response' = 500
  /\ impPc' = "done"
  /\ UNCHANGED <<mvPc, run, uploaded, before, drawingsCache>>
  /\ UNCHANGED trail
  /\ HandlerFrame

\* await prisma.$disconnect(); invalidateDrawingsCache(); answer 200
ImportCommit ==
  /\ impPc = "commit"
  /\ drawingsCache' = EmptyMap
  /\ response' = 200
  /\ impPc' = "done"
  /\ UNCHANGED <<files, mvPc, run, uploaded, before>>
  /\ trail' = Append(trail, "committed")
  /\ HandlerFrame

\* prisma.$disconnect() rejects: the outer catch removes req.file.path, answers 500
ImportDisconnectThrows ==
  /\ impPc = "commit"
  /\ files' = RemoveFileIfExists(files, OriginalPath(run))
  /\ response' = 500
  /\ impPc' = "done"
  /\ UNCHANGED <<mvPc, run, uploaded, before, drawingsCache>>
  /\ UNCHANGED trail
  /\ HandlerFrame

\* POST /import/sqlite/verify: multer stored the upload, the handler starts
\* verifyDatabaseIntegrityAsync(req.file.path)
VerifyUpload(c) ==
  /\ impPc \in {"idle", "done"}
  /\ run < MaxImports
  /\ run' = run + 1
  /\ uploaded' = c
  /\ before' = [db |-> files[dbPath], backup |-> files[backupPath]]
  /\ files' = [files EXCEPT ![OriginalPath(run + 1)] = c]
  /\ response' = 0
  /\ impPc' = "verify"
  /\ endpoint' = "verify"
  /\ UNCHANGED <<mvPc, drawingsCache, workerVars>>
  /\ trail' = <<>>
  /\ ImportFrame

\* no file in the verify request: 400 "No file uploaded"
VerifyNoFile ==
  /\ impPc \in {"idle", "done"}
  /\ run < MaxImports
  /\ run' = run + 1
  /\ uploaded' = Absent
  /\ before' = [db |-> files[dbPath], backup |-> files[backupPath]]
  /\ response' = 400
  /\ impPc' = "done"
  /\ endpoint' = "verify"
  /\ UNCHANGED <<files, mvPc, drawingsCache, workerVars>>
  /\ trail' = <<>>
  /\ ImportFrame

\* await removeFileIfExists(stagedPath); if (!isValid) answer 400
VerifyInvalid ==
  /\ impPc = "invalid"
  /\ files' = RemoveFileIfExists(files, OriginalPath(run))
  /\ response' = 400
  /\ impPc' = "done"
  /\ UNCHANGED <<mvPc, run, uploaded, before, drawingsCache, trail>>
  /\ HandlerFrame

\* await removeFileIfExists(stagedPath); res.json({ valid: true, ... })
VerifyValid ==
  /\ impPc = "valid"
  /\ files' = RemoveFileIfExists(files, OriginalPath(run))
  /\ response' = 200
  /\ impPc' = "done"
  /\ UNCHANGED <<mvPc, run, uploaded, before, drawingsCache, trail>>
  /\ HandlerFrame

VerifyNext ==
  \/ \E c \in Uploads : VerifyUpload(c)
  \/ VerifyNoFile
  \/ VerifyInvalid
  \/ VerifyValid

\* at most MaxListed listing requests are answered while the import routes run
MaxListed == 2

\* GET /drawings without query parameters
PlainListing == [search |-> None, collectionId |-> None, includeData |-> None]

\* GET /drawings while the import routes run: one listing request at a time
ListingNext ==
  \/ started < MaxListed /\ GetLookup("g1", PlainListing)
  \/ GetFindMany("g1")
  \/ GetRespond("g1")
  \/ GetRespondThrows("g1")
  \/ GetFail("g1")

ImportNext ==
  \/ \E c \in Uploads : ImportUpload(c)
  \/ ImportNoFile
  \/ MoveRename
  \/ MoveRenameThrows
  \/ MoveRenameExdev
  \/ MoveUnlinkDestination
  \/ MoveUnlinkDestinationThrows
  \/ MoveCopyBegin
  \/ MoveCopyEnd
  \/ MoveCopyThrows
  \/ MoveUnlinkSource
  \/ MoveUnlinkSourceThrows
  \/ ImportStageFailed
  \/ ImportHeaderInvalid
  \/ ImportWorkerStart
  \/ ImportWorkerThrows
  \/ WorkerMessage
  \/ WorkerError
  \/ \E code \in {0, 1} : WorkerExit(code)
  \/ WorkerTimeout
  \/ ImportRejected
  \/ ImportBackup
  \/ ImportBackupSkipped
  \/ ImportBackupFails
  \/ ImportSwapFailed
  \/ ImportCommit
  \/ ImportDisconnectThrows

(***************************************************************************)
(* Drawings: POST /drawings, PUT /drawings/:id and the sanitization gate   *)
(***************************************************************************)
\* at most MaxWrites create and update requests are received
MaxWrites == 2

\* ids of prisma.drawing rows
RowIds == {"r1", "r2"}
\* the handler instances that can be in flight together
WriteSlots == {1, 2}

Fields == {"name", "collectionId", "preview", "elements", "appState", "files"}
\* the fields JSON.stringify is applied to before they are stored
JsonFields == {"elements", "appState", "files"}

\* A field value: what it holds (the number of the request that sent it, or
\* a fixed value), whether content sanitization produced it, and whether it
\* is JSON text.
Val(v) == [v |-> v, clean |-> FALSE, json |-> FALSE]
Undefined == Val(-1)        \* undefined: the field is not in the payload
EmptyArray == Val(-2)       \* []
EmptyObject == Val(-3)      \* {}
Null == Val(-4)             \* null
Untitled == Val(-5)         \* "Untitled Drawing"

\* version: 1 of a new row
InitialVersion == 1

\* a Map-like value with one more / one fewer key
MapWith(m, k, v) == [x \in DOMAIN m \cup {k} |-> IF x = k THEN v ELSE m[x]]
MapWithout(m, k) == [x \in DOMAIN m \ {k} |-> m[x]]

\* the field sets of the request bodies of the model
SuppliedSets == {{"name"}, {"preview"}, {"name", "preview"}, {"collectionId"},
                 {"elements"}, {"appState"}, Fields}

\* req.body of request n supplying the fields of S
Body(S, n) == [f \in Fields |-> IF f \in S THEN Val(n) ELSE Undefined]

\* JSON.stringify(value)
JsonStringify(x) == [x EXCEPT !.json = TRUE]

\* sanitizeDrawingData(data) when it returns: every field it is given comes
\* back with script-bearing content stripped
sanitizeDrawingData(data) ==
  [f \in DOMAIN data |-> IF data[f] = Undefined THEN Undefined
                         ELSE [data[f] EXCEPT !.clean = TRUE]]

\* value || fallback
OrElse(x, fallback) == IF x = Undefined THEN fallback ELSE x

\* drawingCreateSchema defaults: elements [], appState {}; files null -> undefined
CreateDefaults(body) ==
  [body EXCEPT !.elements = OrElse(@, EmptyArray), !.appState = OrElse(@, EmptyObject)]

\* the refine of drawingCreateSchema: Object.assign(data, sanitizeDrawingData(data)),
\* or false when the sanitizer throws
CreateRefine(data, throws) ==
  IF throws THEN [ok |-> FALSE, threw |-> TRUE, sanitized |-> TRUE, data |-> data]
  ELSE [ok |-> TRUE, threw |-> FALSE, sanitized |-> TRUE, data |-> sanitizeDrawingData(data)]

\* data.elements !== undefined || data.appState !== undefined
SuppliesContent(data) == data.elements # Undefined \/ data.appState # Undefined

RefineCatchLenient(data) == TRUE
\* the catch of the update refine: accept when only metadata was supplied
RefineCatch(data) ==
  /\ data.elements = Undefined
  /\ data.appState = Undefined
  /\ data.name # Undefined \/ data.preview # Undefined \/ data.collectionId # Undefined

\* the refine of drawingUpdateSchema
UpdateRefine(data, throws) ==
  IF SuppliesContent(data)
    THEN IF throws
           THEN [ok |-> RefineCatch(data), threw |-> TRUE, sanitized |-> TRUE, data |-> data]
           ELSE LET fullData == [elements |-> OrElse(data.elements, EmptyArray),
                                 appState |-> OrElse(data.appState, EmptyObject),
                                 files |-> OrElse(data.files, EmptyObject),
                                 preview |-> data.preview,
                                 name |-> data.name,
                                 collectionId |-> data.collectionId]
                    sanitized == sanitizeDrawingData(fullData)
                IN [ok |-> TRUE, threw |-> FALSE, sanitized |-> TRUE,
                    data |-> [data EXCEPT
                                !.elements = sanitized.elements,
                                !.appState = sanitized.appState,
                                !.files = IF data.files # Undefined
                                            THEN sanitized.files ELSE @,
                                !.preview = IF data.preview # Undefined
                                              THEN sanitized.preview ELSE @]]
    ELSE [ok |-> TRUE, threw |-> FALSE, sanitized |-> FALSE, data |-> data]

IsImportedDrawingAnyValue(header) == header # None
\* req.headers["x-imported-file"] === "true"
IsImportedDrawing(header) == header = "true"

ImportedHeaders == {None, "true", "false"}

ParseSucceedsWithoutRefine(shapeOk, refineOk) == shapeOk
\* parsed.success: the shape is valid and the refine returned true
ParseSucceeds(shapeOk, refineOk) == shapeOk /\ refineOk

NextVersionFromSeen(current, seen) == seen + 1
\* version: { increment: 1 }; a version in the body is not part of the schema
NextVersion(current, seen) == current + 1

\* the row prisma.drawing.create stores for the parsed payload
CreatedRow(payload) ==
  [name |-> OrElse(payload.name, Untitled),
   elements |-> JsonStringify(payload.elements),
   appState |-> JsonStringify(payload.appState),
   collectionId |-> OrElse(payload.collectionId, Null),
   preview |-> OrElse(payload.preview, Null),
   files |-> JsonStringify(OrElse(payload.files, EmptyObject)),
   version |-> InitialVersion]

\* the row after prisma.drawing.update({ where: { id }, data }): data holds
\* the fields of the payload that are not undefined
UpdatedRow(row, payload, seen) ==
  [f \in Fields \cup {"version"} |->
     IF f = "version" THEN NextVersion(row.version, seen)
     ELSE IF payload[f] = Undefined THEN row[f]
     ELSE IF f \in JsonFields THEN JsonStringify(payload[f])
     ELSE payload[f]]


NoWrite == [n |-> 0, kind |-> None, id |-> None, status |-> 0, issues |-> 0, header |-> None,
            supplied |-> {}, shapeOk |-> TRUE, threw |-> FALSE, gate |-> <<>>]

\* the number of updates applied to a row
Applied(id) == IF id \in DOMAIN applied THEN applied[id].count ELSE 0

\* the versions a client may claim to have seen last
SeenVersions == {0, 7}

\* the row of a drawing created before the first request of the model
SeedRow == CreatedRow(CreateRefine(CreateDefaults(Body(Fields, 0)), FALSE).data)

\* the rows in the store when the model starts
SeedRows == [id \in {"r1"} |-> SeedRow]

\* the bodies of POST /drawings: a body of invalid shape stands for all of them
PostSupplied == {{}, Fields}
PostRequests ==
  {r \in [header : ImportedHeaders, validatorOk : BOOLEAN, supplied : PostSupplied,
          shapeOk : BOOLEAN, throws : BOOLEAN] :
     /\ r.validatorOk \/ (r.header = "true" /\ r.shapeOk /\ ~r.throws)
     /\ r.shapeOk \/ (r.supplied = Fields /\ ~r.throws)}

\* the bodies of PUT /drawings/:id
PutRequests ==
  {r \in [supplied : SuppliedSets, shapeOk : BOOLEAN, throws : BOOLEAN,
          seen : SeenVersions] :
     r.shapeOk \/ (r.supplied = Fields /\ ~r.throws /\ r.seen = 0)}

\* a handler instance is free and no lower one is
FreeSlot(w) ==
  /\ w \notin DOMAIN writeReq
  /\ \A v \in WriteSlots \ DOMAIN writeReq : w <= v

\* the response of a request that ends in the handler's synchronous part
Rejected(w, n, kind, id, header, S, shapeOk, threw, gate, issues) ==
  /\ UNCHANGED writeReq
  /\ lastWrite' = [n |-> n, kind |-> kind, id |-> id, status |-> 400, issues |-> issues,
                   header |-> header,
                   supplied |-> S, shapeOk |-> shapeOk, threw |-> threw, gate |-> gate]

\* the request reaches its await on prisma
Awaiting(w, n, kind, id, header, S, seen, refined, gate) ==
  /\ writeReq' = MapWith(writeReq, w,
                    [pc |-> "await", kind |-> kind, id |-> id, n |-> n, seen |-> seen,
                     header |-> header,
                     supplied |-> S, shapeOk |-> TRUE, threw |-> refined.threw,
                     payload |-> refined.data, gate |-> gate])
  /\ UNCHANGED lastWrite

\* the calls of safeParse: the shape check, then the refine when the shape is valid
ParseGate(shapeOk, refined) ==
  IF shapeOk /\ refined.sanitized THEN <<"shape", "sanitizeDrawingData">> ELSE <<"shape">>

\* POST /drawings up to the await on prisma.drawing.create
PostDrawing(w, r) ==
  LET n == accepted + 1
      imported == IsImportedDrawing(r.header)
      gate0 == IF imported THEN <<"validateImportedDrawing">> ELSE <<>>
      refined == CreateRefine(CreateDefaults(Body(r.supplied, n)), r.throws)
      gate == gate0 \o ParseGate(r.shapeOk, refined)
  IN /\ FreeSlot(w)
     /\ accepted < MaxWrites
     /\ accepted' = n
     /\ IF imported /\ ~r.validatorOk
          THEN Rejected(w, n, "POST", None, r.header, r.supplied, r.shapeOk, FALSE, gate0, 0)
          ELSE IF ParseSucceeds(r.shapeOk, refined.ok)
            THEN Awaiting(w, n, "POST", None, r.header, r.supplied, 0, refined, gate)
            ELSE Rejected(w, n, "POST", None, r.header, r.supplied, r.shapeOk,
                          r.shapeOk /\ refined.threw, gate, 1)
     /\ UNCHANGED <<drawingRows, applied, invalidations, drawingsCache>>
     /\ DrawingFrame

\* PUT /drawings/:id up to the await on prisma.drawing.update
PutDrawing(w, id, r) ==
  LET n == accepted + 1
      refined == UpdateRefine(Body(r.supplied, n), r.throws)
      gate == ParseGate(r.shapeOk, refined)
  IN /\ FreeSlot(w)
     /\ accepted < MaxWrites
     /\ accepted' = n
     /\ IF ParseSucceeds(r.shapeOk, refined.ok)
          THEN Awaiting(w, n, "PUT", id, None, r.supplied, r.seen, refined, gate)
          ELSE Rejected(w, n, "PUT", id, None, r.supplied, r.shapeOk,
                        r.shapeOk /\ refined.threw, gate, 1)
     /\ UNCHANGED <<drawingRows, applied, invalidations, drawingsCache>>
     /\ DrawingFrame

\* prisma.drawing.create resolves: a row with a fresh id
StoreCreates(w) ==
  /\ w \in DOMAIN writeReq
  /\ writeReq[w].pc = "await" /\ writeReq[w].kind = "POST"
  /\ RowIds \ DOMAIN drawingRows # {}
  /\ LET id == CHOOSE free \in RowIds : free \notin DOMAIN drawingRows IN
       /\ drawingRows' = MapWith(drawingRows, id, CreatedRow(writeReq[w].payload))
       /\ writeReq' = [writeReq EXCEPT ![w].pc = "written", ![w].id = id]
  /\ UNCHANGED <<lastWrite, applied, invalidations, accepted, drawingsCache>>
  /\ DrawingFrame

\* prisma.drawing.update resolves: the row is updated in one statement
StoreUpdates(w) ==
  /\ w \in DOMAIN writeReq
  /\ writeReq[w].pc = "await" /\ writeReq[w].kind = "PUT"
  /\ LET id == writeReq[w].id IN
       /\ id \in DOMAIN drawingRows
       /\ drawingRows' = [drawingRows EXCEPT
                            ![id] = UpdatedRow(@, writeReq[w].payload, writeReq[w].seen)]
       /\ applied' = MapWith(applied, id,
                             [n |-> writeReq[w].n, count |-> Applied(id) + 1,
                              supplied |-> writeReq[w].supplied,
                              before |-> drawingRows[id]])
  /\ writeReq' = [writeReq EXCEPT ![w].pc = "written"]
  /\ UNCHANGED <<lastWrite, invalidations, accepted, drawingsCache>>
  /\ DrawingFrame

\* the response of a request that awaited prisma
Responded(w, status) ==
  /\ writeReq' = MapWithout(writeReq, w)
  /\ lastWrite' = [n |-> writeReq[w].n, kind |-> writeReq[w].kind, id |-> writeReq[w].id,
                   status |-> status, issues |-> 0, header |-> writeReq[w].header,
                   supplied |-> writeReq[w].supplied,
                   shapeOk |-> writeReq[w].shapeOk, threw |-> writeReq[w].threw,
                   gate |-> writeReq[w].gate]

\* prisma rejects (no such row, constraint, connection): the catch answers 500
StoreRejects(w) ==
  /\ w \in DOMAIN writeReq
  /\ writeReq[w].pc = "await"
  /\ Responded(w, 500)
  /\ UNCHANGED <<drawingRows, applied, invalidations, accepted, drawingsCache>>
  /\ DrawingFrame

\* the handler resumes: invalidateDrawingsCache(); res.json(row)
WriteRespond(w) ==
  /\ w \in DOMAIN writeReq
  /\ writeReq[w].pc = "written"
  /\ drawingsCache' = EmptyMap
  /\ invalidations' = invalidations + 1
  /\ Responded(w, 200)
  /\ UNCHANGED <<drawingRows, applied, accepted>>
  /\ DrawingFrame

DrawingNext ==
  \/ \E w \in WriteSlots, r \in PostRequests : PostDrawing(w, r)
  \/ \E w \in WriteSlots, id \in RowIds, r \in PutRequests : PutDrawing(w, id, r)
  \/ \E w \in WriteSlots : StoreCreates(w)
  \/ \E w \in WriteSlots : StoreUpdates(w)
  \/ \E w \in WriteSlots : StoreRejects(w)
  \/ \E w \in WriteSlots : WriteRespond(w)

(***************************************************************************)
(* Export: GET /export/json                                                *)
(***************************************************************************)
\* at most MaxDrawings drawings are in the store that is exported
MaxDrawings == 2

\* strings as sequences of characters
Unorganized == <<"U">>
Extension == <<".excalidraw">>
\* drawing.collection is null
NoCollection == <<>>

\* names of drawings and of collections in the store
DrawingNames == {<<"a">>, <<"a", "/", "b">>, <<"a", ":", "b">>, <<"a", "_", "b">>}
CollectionNames == {NoCollection, <<"c">>, <<"c", "?">>, <<"c", "_">>, Unorganized}

\* the characters of /[<>:"/\\|?*]/
ReservedChars == {"<", ">", ":", "\"", "/", "\\", "|", "?", "*"}

\* name.replace(/[<>:"/\\|?*]/g, "_")
ReplaceReserved(name) ==
  [i \in 1..Len(name) |-> IF name[i] \in ReservedChars THEN "_" ELSE name[i]]

\* JSON.parse(text)
JsonParse(x) == [x EXCEPT !.json = FALSE]

\* the row of drawing number k: its JSON columns hold the text of its content
ExportRow(k, name, collection) ==
  [id |-> k, name |-> name, collection |-> collection,
   elements |-> JsonStringify(Val(3 * k)),
   appState |-> JsonStringify(Val(3 * k + 1)),
   files |-> JsonStringify(Val(3 * k + 2))]

\* drawing.collection?.name || "Unorganized"
CollectionNameOf(row) ==
  IF row.collection = NoCollection THEN Unorganized ELSE row.collection

\* { elements: JSON.parse(...), appState: JSON.parse(...), files: JSON.parse(...) }
DrawingData(row) ==
  [elements |-> JsonParse(row.elements), appState |-> JsonParse(row.appState),
   files |-> JsonParse(row.files)]

\* the keys of drawingsByCollection in insertion order
RECURSIVE GroupKeys(_)
GroupKeys(rows) ==
  IF rows = <<>> THEN <<>>
  ELSE LET front == GroupKeys(SubSeq(rows, 1, Len(rows) - 1))
           key == CollectionNameOf(rows[Len(rows)])
       IN IF \E i \in 1..Len(front) : front[i] = key THEN front ELSE Append(front, key)

\* drawingsByCollection[collectionName]: the drawings pushed under one key
RECURSIVE GroupOf(_, _)
GroupOf(rows, key) ==
  IF rows = <<>> THEN <<>>
  ELSE LET rest == GroupOf(Tail(rows), key)
       IN IF CollectionNameOf(Head(rows)) = key
            THEN <<[name |-> Head(rows).name, data |-> DrawingData(Head(rows))]>> \o rest
            ELSE rest

\* `${folderName}/${fileName}` with both parts sanitized
FilePath(collectionName, name) ==
  ReplaceReserved(collectionName) \o <<"/">> \o ReplaceReserved(name) \o Extension

\* archive.append(JSON.stringify(drawing.data, null, 2), { name: filePath })
\* for every drawing of one group
GroupEntries(key, group) ==
  [i \in 1..Len(group) |->
     [name |-> FilePath(key, group[i].name),
      content |-> [json |-> TRUE, data |-> group[i].data]]]

\* the document entries appended, group after group
RECURSIVE EntriesOf(_, _)
EntriesOf(rows, keys) ==
  IF keys = <<>> THEN <<>>
  ELSE GroupEntries(Head(keys), GroupOf(rows, Head(keys))) \o EntriesOf(rows, Tail(keys))

NoArchive == [sent |-> FALSE, rows |-> <<>>, entries |-> <<>>, readme |-> FALSE]

\* a drawing is in the store (created by POST /drawings or an import)
ExportStoreDrawing(name, collection) ==
  /\ Len(exportStore) < MaxDrawings
  /\ exportStore' = Append(exportStore, ExportRow(Len(exportStore) + 1, name, collection))
  /\ UNCHANGED archive
  /\ ExportFrame

\* GET /export/json: findMany, one entry per drawing, README.txt, finalize
ExportJson ==
  /\ archive' = [sent |-> TRUE, rows |-> exportStore,
                 entries |-> EntriesOf(exportStore, GroupKeys(exportStore)),
                 readme |-> TRUE]
  /\ UNCHANGED exportStore
  /\ ExportFrame

ExportNext ==
  \/ \E name \in DrawingNames, collection \in CollectionNames :
       ExportStoreDrawing(name, collection)
  \/ ExportJson

(***************************************************************************)
(* GET /drawings/:id, DELETE /drawings/:id and POST /drawings/:id/duplicate *)
(***************************************************************************)
\* the server handles at most MaxById of these requests
MaxById == 3

ByIdOps == {"get", "delete", "duplicate"}

IdleById == [pc |-> "idle", op |-> None, id |-> None, found |-> FALSE, status |-> 0]

\* `${original.name} (Copy)`: a name that differs from the name of the original
CopyName(name) == [name EXCEPT !.v = name.v + 100]

\* data of prisma.drawing.create in the duplicate route; preview is not copied
DuplicateRow(original) ==
  [name |-> CopyName(original.name),
   elements |-> original.elements,
   appState |-> original.appState,
   collectionId |-> original.collectionId,
   preview |-> Null,
   files |-> original.files,
   version |-> InitialVersion]

\* the request arrives and reaches its first await on prisma
ByIdStart(op, id) ==
  /\ byIdReq.pc = "idle"
  /\ byIdCount < MaxById
  /\ byIdCount' = byIdCount + 1
  /\ byIdReq' = [pc |-> "await", op |-> op, id |-> id, found |-> FALSE, status |-> 0]
  /\ UNCHANGED <<lastById, drawingRows, drawingsCache>>
  /\ ByIdFrame

\* prisma.drawing.findUnique({ where: { id } }) resolves with the row or null
FindUnique ==
  /\ byIdReq.pc = "await" /\ byIdReq.op \in {"get", "duplicate"}
  /\ byIdReq' = [byIdReq EXCEPT !.pc = "found", !.found = byIdReq.id \in DOMAIN drawingRows]
  /\ UNCHANGED <<lastById, byIdCount, drawingRows, drawingsCache>>
  /\ ByIdFrame

\* prisma.drawing.delete({ where: { id } }) removes the row
StoreDeletes ==
  /\ byIdReq.pc = "await" /\ byIdReq.op = "delete"
  /\ byIdReq.id \in DOMAIN drawingRows
  /\ drawingRows' = MapWithout(drawingRows, byIdReq.id)
  /\ byIdReq' = [byIdReq EXCEPT !.pc = "written", !.found = TRUE]
  /\ UNCHANGED <<lastById, byIdCount, drawingsCache>>
  /\ ByIdFrame

\* the response of the request
ByIdResponded(status) ==
  /\ lastById' = [byIdReq EXCEPT !.pc = "done", !.status = status]
  /\ byIdReq' = IdleById

\* prisma.drawing.delete throws because no row has the id: the catch answers 500
StoreDeleteThrows ==
  /\ byIdReq.pc = "await" /\ byIdReq.op = "delete"
  /\ byIdReq.id \notin DOMAIN drawingRows
  /\ ByIdResponded(500)
  /\ UNCHANGED <<byIdCount, drawingRows, drawingsCache>>
  /\ ByIdFrame

\* if (!drawing) return res.status(404); if (!original) return res.status(404)
ByIdNotFound ==
  /\ byIdReq.pc = "found" /\ ~byIdReq.found
  /\ ByIdResponded(404)
  /\ UNCHANGED <<byIdCount, drawingRows, drawingsCache>>
  /\ ByIdFrame

\* GET /drawings/:id answers with the row
GetDrawingResponds ==
  /\ byIdReq.pc = "found" /\ byIdReq.found /\ byIdReq.op = "get"
  /\ ByIdResponded(200)
  /\ UNCHANGED <<byIdCount, drawingRows, drawingsCache>>
  /\ ByIdFrame

\* prisma.drawing.create of the duplicate route stores the copy under a fresh id
StoreDuplicates ==
  /\ byIdReq.pc = "found" /\ byIdReq.found /\ byIdReq.op = "duplicate"
  /\ byIdReq.id \in DOMAIN drawingRows
  /\ RowIds \ DOMAIN drawingRows # {}
  /\ LET id == CHOOSE free \in RowIds : free \notin DOMAIN drawingRows IN
       drawingRows' = MapWith(drawingRows, id, DuplicateRow(drawingRows[byIdReq.id]))
  /\ byIdReq' = [byIdReq EXCEPT !.pc = "written"]
  /\ UNCHANGED <<lastById, byIdCount, drawingsCache>>
  /\ ByIdFrame

\* the handler resumes after its write: invalidateDrawingsCache(); res.json(...)
ByIdRespond ==
  /\ byIdReq.pc = "written"
  /\ drawingsCache' = EmptyMap
  /\ ByIdResponded(200)
  /\ UNCHANGED <<byIdCount, drawingRows>>
  /\ ByIdFrame

\* the body of the PUT /drawings/:id requests served beside these routes
RenameRequest == [supplied |-> {"name"}, shapeOk |-> TRUE, throws |-> FALSE, seen |-> 0]

\* the routes addressed to one drawing, with a listing that fills the cache
ByIdNext ==
  \/ \E op \in ByIdOps, id \in RowIds : ByIdStart(op, id)
  \/ FindUnique
  \/ StoreDeletes
  \/ StoreDeleteThrows
  \/ ByIdNotFound
  \/ GetDrawingResponds
  \/ StoreDuplicates
  \/ ByIdRespond
  \/ \E id \in RowIds : PutDrawing(1, id, RenameRequest)
  \/ StoreUpdates(1)
  \/ StoreRejects(1)
  \/ WriteRespond(1)
  \/ started < MaxListed /\ GetLookup("g1", PlainListing)
  \/ GetFindMany("g1")
  \/ GetRespond("g1")

(***************************************************************************)
(* Collections: POST /collections and DELETE /collections/:id               *)
(***************************************************************************)
\* at most MaxCollections collections are ever created
MaxCollections == 3

\* collection ids are never reused: the n-th collection created has id n
CollectionIds == 1..MaxCollections
\* the drawings that are filed into collections
FiledDrawings == {"d1", "d2"}
\* collectionId: null
Unfiled == 0

IdleCol == [pc |-> "idle", id |-> 0, status |-> 0]

\* the collection and drawing tables as one value
Tables == [collections |-> collections, collectionOf |-> collectionOf]

\* prisma.drawing.updateMany({ where: { collectionId: id }, data: { collectionId: null } })
UpdateMany(t, id) ==
  [t EXCEPT !.collectionOf =
     [d \in DOMAIN t.collectionOf |->
        IF t.collectionOf[d] = id THEN Unfiled ELSE t.collectionOf[d]]]

\* prisma.collection.delete({ where: { id } }): rejects when no row has the id
CollectionDelete(t, id) == [t EXCEPT !.collections = @ \ {id}]

\* the statement of the transaction that fails: 0 for none; the delete fails
\* by itself when no collection has the id
FailingStatement(t, id, fault) ==
  IF fault # 0 THEN fault ELSE IF id \notin t.collections THEN 2 ELSE 0

\* prisma.$transaction([updateMany, delete]): both statements or neither
TransactionWithoutRollback(t, id, fault) ==
  LET failing == FailingStatement(t, id, fault) IN
  IF failing = 1 THEN [ok |-> FALSE, tables |-> t]
  ELSE IF failing = 2 THEN [ok |-> FALSE, tables |-> UpdateMany(t, id)]
  ELSE [ok |-> TRUE, tables |-> CollectionDelete(UpdateMany(t, id), id)]
Transaction(t, id, fault) ==
  LET failing == FailingStatement(t, id, fault) IN
  IF failing # 0 THEN [ok |-> FALSE, tables |-> t]
  ELSE [ok |-> TRUE, tables |-> CollectionDelete(UpdateMany(t, id), id)]

\* POST /collections: prisma.collection.create, res.json(newCollection)
CreateCollection ==
  /\ colCount < MaxCollections
  /\ colCount' = colCount + 1
  /\ collections' = collections \cup {colCount + 1}
  /\ UNCHANGED <<collectionOf, colReq, lastCol, drawingsCache>>
  /\ CollectionFrame

\* the write of a POST /drawings or PUT /drawings/:id that supplies
\* collectionId: the foreign key admits null and the ids of existing collections
FileDrawing(d, c) ==
  /\ c = Unfiled \/ c \in collections
  /\ d \in DOMAIN collectionOf => collectionOf[d] # c
  /\ collectionOf' = MapWith(collectionOf, d, c)
  /\ UNCHANGED <<collections, colReq, lastCol, colCount, drawingsCache>>
  /\ CollectionFrame

\* DELETE /collections/:id up to the await on prisma.$transaction
DeleteCollection(id) ==
  /\ colReq.pc = "idle"
  /\ colReq' = [pc |-> "await", id |-> id, status |-> 0]
  /\ UNCHANGED <<collections, collectionOf, lastCol, colCount, drawingsCache>>
  /\ CollectionFrame

\* the transaction settles: committed, or rolled back and the catch answers 500
TransactionSettles(fault) ==
  /\ colReq.pc = "await"
  /\ LET result == Transaction(Tables, colReq.id, fault) IN
       /\ collections' = result.tables.collections
       /\ collectionOf' = result.tables.collectionOf
       /\ IF result.ok
            THEN /\ colReq' = [colReq EXCEPT !.pc = "committed"]
                 /\ UNCHANGED lastCol
            ELSE /\ colReq' = IdleCol
                 /\ lastCol' = [colReq EXCEPT !.pc = "done", !.status = 500]
  /\ UNCHANGED <<colCount, drawingsCache>>
  /\ CollectionFrame

\* the handler resumes: invalidateDrawingsCache(); res.json({ success: true })
DeleteCollectionRespond ==
  /\ colReq.pc = "committed"
  /\ drawingsCache' = EmptyMap
  /\ colReq' = IdleCol
  /\ lastCol' = [colReq EXCEPT !.pc = "done", !.status = 200]
  /\ UNCHANGED <<collections, collectionOf, colCount>>
  /\ CollectionFrame

CollectionNext ==
  \/ CreateCollection
  \/ \E d \in FiledDrawings, c \in CollectionIds \cup {Unfiled} : FileDrawing(d, c)
  \/ \E id \in CollectionIds : DeleteCollection(id)
  \/ \E fault \in 0..2 : TransactionSettles(fault)
  \/ DeleteCollectionRespond

(***************************************************************************)
(* The cache key of GET /drawings, character by character                  *)
(***************************************************************************)
\* query strings of the key model have at most MaxKeyLen characters
MaxKeyLen == 1

\* the strings over the characters of C of length at most n
StringsOver(C, n) == UNION {[1..k -> C] : k \in 0..n}

\* a query parameter that is not in the request
Missing == <<"undefined">>
NullWord == <<"n", "u", "l", "l">>
DefaultWord == <<"d", "e", "f", "a", "u", "l", "t">>

\* req.query of the listing requests of the key model; sort stands for any
\* parameter the handler does not read
KeyRequests ==
  [search : {Missing} \cup StringsOver({"a", " ", "\""}, MaxKeyLen),
   collectionId : {Missing, NullWord, DefaultWord} \cup StringsOver({"\"", "\\"}, MaxKeyLen),
   includeData : {None, "True", "0"},
   sort : {None, "name"}]
PlainKeyRequest ==
  [search |-> Missing, collectionId |-> Missing, includeData |-> None, sort |-> None]

RECURSIVE TrimStart(_)
TrimStart(s) == IF s # <<>> /\ Head(s) = " " THEN TrimStart(Tail(s)) ELSE s
RECURSIVE TrimEnd(_)
TrimEnd(s) ==
  IF s # <<>> /\ s[Len(s)] = " " THEN TrimEnd(SubSeq(s, 1, Len(s) - 1)) ELSE s
\* String.prototype.trim
TrimChars(s) == TrimEnd(TrimStart(s))

\* typeof search === "string" && search.trim().length > 0 ? search.trim() : undefined
SearchTermChars(search) ==
  IF search # Missing /\ Len(TrimChars(search)) > 0 THEN TrimChars(search) ELSE Missing

\* where.collectionId / where.OR of the request
WhereCollection(collectionId) ==
  IF collectionId = NullWord THEN [filter |-> "null", id |-> <<>>]
  ELSE IF collectionId # Missing /\ collectionId # <<>>
    THEN [filter |-> "id", id |-> collectionId]
  ELSE [filter |-> "default", id |-> <<>>]

\* collectionFilterKey: "null", `id:${normalizedCollectionId}` or "default"
CollectionFilterChars(collectionId) ==
  IF collectionId = NullWord THEN NullWord
  ELSE IF collectionId # Missing /\ collectionId # <<>>
    THEN <<"i", "d", ":">> \o collectionId
  ELSE DefaultWord

\* what the listing is computed from: the name filter, the collection filter
\* and whether the bodies are selected
ListingOf(r) ==
  [searchTerm |-> SearchTermChars(r.search),
   where |-> WhereCollection(r.collectionId),
   includeData |-> ShouldIncludeData(r.includeData)]

RECURSIVE JsonEscape(_)
\* JSON.stringify of the characters of a string: " and \ are escaped
JsonEscape(s) ==
  IF s = <<>> THEN <<>>
  ELSE (IF Head(s) \in {"\"", "\\"} THEN <<"\\", Head(s)>> ELSE <<Head(s)>>)
       \o JsonEscape(Tail(s))
\* JSON.stringify of a string
JsonQuote(s) == <<"\"">> \o JsonEscape(s) \o <<"\"">>

\* JSON.stringify([searchTerm, collectionFilter, includeData ? "full" : "summary"])
StringifyKeyWithoutFlag(searchTerm, collectionFilter, includeData) ==
  <<"[">> \o JsonQuote(searchTerm) \o <<",">> \o JsonQuote(collectionFilter) \o <<"]">>
StringifyKey(searchTerm, collectionFilter, includeData) ==
  <<"[">> \o JsonQuote(searchTerm) \o <<",">> \o JsonQuote(collectionFilter) \o <<",">>
  \o JsonQuote(IF includeData THEN <<"f", "u", "l", "l">>
               ELSE <<"s", "u", "m", "m", "a", "r", "y">>) \o <<"]">>

\* const cacheKey = buildDrawingsCacheKey({ searchTerm: searchTerm ?? "", ... })
CacheKeyChars(r) ==
  StringifyKey(IF SearchTermChars(r.search) = Missing THEN <<>>
               ELSE SearchTermChars(r.search),
               CollectionFilterChars(r.collectionId),
               ShouldIncludeData(r.includeData))

\* GET /drawings builds the cache key of its request
BuildKey(r) ==
  /\ keyQuery' = r
  /\ cacheKey' = CacheKeyChars(r)
  /\ KeyFrame

KeyNext == \E r \in KeyRequests : BuildKey(r)

(***************************************************************************)
(* DrawingCard: the hydrated data of a card and its getDrawing requests     *)
(***************************************************************************)
\* a card starts at most MaxCardRequests getDrawing requests
MaxCardRequests == 3

\* the drawings a card can show
CardIds == {"d1", "d2"}

\* the drawing prop changes: useEffect(() => { setFullData(null);
\* fullDataPromiseRef.current = null; }, [drawing.id])
ChangeId(id) ==
  /\ id # cardId
  /\ cardId' = id
  /\ fullDataId' = None
  /\ promiseRef' = 0
  /\ UNCHANGED <<inflight, cardReqs>>
  /\ CardFrame

\* ensureFullData() called by the preview effect or by handleExport when
\* neither data nor a pending promise is held: api.getDrawing(currentDrawingId)
EnsureFullData ==
  /\ fullDataId = None
  /\ promiseRef = 0
  /\ cardReqs < MaxCardRequests
  /\ cardReqs' = cardReqs + 1
  /\ inflight' = inflight \cup {[n |-> cardReqs + 1, id |-> cardId]}
  /\ promiseRef' = cardReqs + 1
  /\ UNCHANGED <<cardId, fullDataId>>
  /\ CardFrame

\* .then((fullDrawing) => { setFullData(payload); fullDataPromiseRef.current = null; })
GetDrawingResolves(r) ==
  /\ r \in inflight
  /\ inflight' = inflight \ {r}
  /\ fullDataId' = r.id
  /\ promiseRef' = 0
  /\ UNCHANGED <<cardId, cardReqs>>
  /\ CardFrame

\* .catch((error) => { fullDataPromiseRef.current = null; throw error; })
GetDrawingRejects(r) ==
  /\ r \in inflight
  /\ inflight' = inflight \ {r}
  /\ promiseRef' = 0
  /\ UNCHANGED <<cardId, fullDataId, cardReqs>>
  /\ CardFrame

CardNext ==
  \/ \E id \in CardIds : ChangeId(id)
  \/ EnsureFullData
  \/ \E r \in [n : 1..MaxCardRequests, id : CardIds] : GetDrawingResolves(r)
  \/ \E r \in [n : 1..MaxCardRequests, id : CardIds] : GetDrawingRejects(r)

(***************************************************************************)
(* Specifications: one per subsystem, the other subsystems stay idle       *)
(***************************************************************************)
\* The state of the server after start-up: no connection, empty maps, no
\* request in progress; db and backup are the files found at the live store
\* path and at the backup path.
Init(db, backup, rows) ==
  /\ connState = [s \in Sockets |-> "idle"]
  /\ socketRooms = [r \in RoomIds |-> {}]
  /\ roomUsers = <<>>
  /\ inbox = [s \in Sockets |-> <<>>]
  /\ sendSeq = [s \in Sockets |-> 0]
  /\ lastEvent = NoEvent
  /\ lastEmits = <<>>
  /\ steps = 0
  /\ now = 0
  /\ requestCounts = EmptyMap
  /\ window = [ip \in Addresses \cup {"unknown"} |-> [start |-> 0, seen |-> 0]]
  /\ lastDecision = [ip |-> None, status |-> 0]
  /\ rejections = [ip \in Addresses \cup {"unknown"} |-> 0]
  /\ requests = 0
  /\ drawingsCache = EmptyMap
  /\ storeRev = 0
  /\ getReq = [g \in GetSlots |-> IdleGet]
  /\ mutReq = [m \in MutSlots |-> IdleMut]
  /\ floorRev = [k \in CacheKeys |-> 0]
  /\ completedRev = 0
  /\ lastGet = NoGet
  /\ started = 0
  /\ files = [p \in Paths |-> IF p = dbPath THEN db
                              ELSE IF p = backupPath THEN backup ELSE Absent]
  /\ impPc = "idle"
  /\ mvPc = "none"
  /\ run = 0
  /\ uploaded = Absent
  /\ before = [db |-> db, backup |-> backup]
  /\ response = 0
  /\ worker = [state |-> "none", posted |-> FALSE]
  /\ settled = FALSE
  /\ timeoutHandle = "none"
  /\ verdict = NoVerdict
  /\ trail = <<>>
  /\ endpoint = "import"
  /\ drawingRows = rows
  /\ writeReq = EmptyMap
  /\ lastWrite = NoWrite
  /\ applied = EmptyMap
  /\ invalidations = 0
  /\ accepted = 0
  /\ exportStore = <<>>
  /\ archive = NoArchive
  /\ byIdReq = IdleById
  /\ lastById = IdleById
  /\ byIdCount = 0
  /\ collections = {}
  /\ collectionOf = EmptyMap
  /\ colReq = IdleCol
  /\ lastCol = IdleCol
  /\ colCount = 0
  /\ keyQuery = PlainKeyRequest
  /\ cacheKey = <<>>
  /\ cardId = "d1"
  /\ fullDataId = None
  /\ promiseRef = 0
  /\ inflight = {}
  /\ cardReqs = 0

SpecRelay ==
  /\ Init(OldStore, Absent, EmptyMap)
  /\ [][RelayNext]_vars

SpecRate ==
  /\ Init(OldStore, Absent, EmptyMap)
  /\ [][RateNext]_vars

SpecCache ==
  /\ Init(OldStore, Absent, EmptyMap)
  /\ [][CacheNext]_vars

SpecImport ==
  \* the server may start with or without a live store and a backup
  /\ \E db \in {Absent, OldStore}, backup \in {Absent, OldBackup} : Init(db, backup, EmptyMap)
  /\ [][ImportNext]_vars

SpecDrawing ==
  /\ Init(OldStore, Absent, SeedRows)
  /\ [][DrawingNext]_vars

SpecExport ==
  /\ Init(OldStore, Absent, EmptyMap)
  /\ [][ExportNext]_vars

SpecById ==
  /\ Init(OldStore, Absent, SeedRows)
  /\ [][ByIdNext]_vars

SpecCollections ==
  /\ Init(OldStore, Absent, EmptyMap)
  /\ [][CollectionNext]_vars

SpecCacheKey ==
  /\ Init(OldStore, Absent, EmptyMap)
  /\ [][KeyNext]_vars

SpecCard ==
  /\ Init(OldStore, Absent, EmptyMap)
  /\ [][CardNext]_vars

\* the import routes and the listing served side by side
SpecListing ==
  /\ Init(OldStore, Absent, EmptyMap)
  /\ [][ImportNext \/ VerifyNext \/ ListingNext]_vars

\* the import with the timers of the event loop firing: an armed 10 s timer
\* of the verification eventually runs its callback
SpecImportFair ==
  /\ SpecImport
  /\ WF_vars(WorkerTimeout)

(***************************************************************************)
(* Properties                                                              *)
(***************************************************************************)
DataEvents == {"cursor-move", "element-update"}
RecordsOf(roomId, socket) ==
  {i \in 1..Len(UsersOf(roomId)) : UsersOf(roomId)[i].socketId = socket}

\* C1: after any sequence of join-room and disconnect events, a room's
\* participant list holds exactly one record for each connection that joined
\* the room and has not disconnected, and no record of any other connection.
C1_OneRecordPerJoinedConnection ==
  \A r \in RoomIds, s \in Sockets :
    Cardinality(RecordsOf(r, s)) = IF s \in socketRooms[r] THEN 1 ELSE 0

\* C2: an import request answered with an error leaves the live store file
\* exactly as it was when the request arrived.
C2_ErrorLeavesLiveStore ==
  response \in {400, 500} => files[dbPath] = before.db

\* C3: a successful import over an existing live store leaves a backup equal
\* to the prior live store and a live store equal to the uploaded file, and
\* the swap is only started once the backup copy is complete.
C3_BackupThenSwap ==
  before.db # Absent =>
    /\ response = 200 => files[backupPath] = before.db /\ files[dbPath] = uploaded
    /\ impPc = "swap" => files[backupPath] = before.db

\* C4: in every intermediate state of moveFile(staged, live) the live store
\* path holds the complete old store or the complete new store.
C4_SwapAtomic ==
  (impPc = "swap" /\ before.db # Absent) => files[dbPath] \in {before.db, uploaded}

\* C5: once a mutation has completed, a lookup of a key that was cached before
\* it misses or returns a body computed from post-mutation data, and no entry
\* computed from pre-mutation data is put in the cache after the invalidation.
C5_NoStaleListing ==
  /\ lastGet.cache = "HIT" => lastGet.body[2].rev >= lastGet.floor
  /\ \A k \in DOMAIN drawingsCache : drawingsCache[k].body[2].rev >= completedRev

\* C6: within one window the first RATE_LIMIT_MAX_REQUESTS requests of an
\* address are allowed and every further one is answered 429; the first
\* request after the window has elapsed starts a new window of allowed requests.
C6_FixedWindowLimit ==
  lastDecision.ip # None =>
    /\ lastDecision.status \in {200, 429}
    /\ lastDecision.status = 200 <=>
         window[lastDecision.ip].seen <= RATE_LIMIT_MAX_REQUESTS

\* an address was rejected in its first window and then allowed its full
\* quota again in a later window
C6_Witness ==
  /\ lastDecision.ip # None
  /\ lastDecision.status = 200
  /\ rejections[lastDecision.ip] > 0
  /\ window[lastDecision.ip].start > RATE_LIMIT_WINDOW
  /\ window[lastDecision.ip].seen = RATE_LIMIT_MAX_REQUESTS

\* C7: a cursor-move or element-update is addressed to every other member of
\* the named room, and no connection ever receives its own event or an event
\* of a room it is not a member of.
C7_ForwardedToOthersOnly ==
  /\ lastEvent.event \in DataEvents =>
       /\ Len(lastEmits) = 1
       /\ lastEmits[1].event = lastEvent.event
       /\ lastEmits[1].to = socketRooms[lastEvent.roomId] \ {lastEvent.socket}
  /\ \A t \in Sockets : \A i \in 1..Len(inbox[t]) :
       /\ inbox[t][i].from # t
       /\ connState[t] = "connected" => t \in socketRooms[RoomId(inbox[t][i].drawingId)]

\* a member of a room sent an event: another member received it, a third
\* connection outside the room did not
C7_Witness ==
  /\ lastEvent.event \in DataEvents
  /\ lastEvent.socket \in socketRooms[lastEvent.roomId]
  /\ \E t \in socketRooms[lastEvent.roomId] \ {lastEvent.socket} :
       Len(inbox[t]) > 0 /\ inbox[t][Len(inbox[t])] = lastEmits[1].payload
  /\ \E u \in Sockets : connState[u] = "connected" /\ u \notin socketRooms[lastEvent.roomId]
                         /\ inbox[u] = <<>>

\* C8: every receiver gets the element-updates of one sender in the order the
\* sender produced them, and an element-update reaches every other member.
C8_OrderedPerSender ==
  /\ \A t \in Sockets : \A i, j \in 1..Len(inbox[t]) :
       (/\ i < j
        /\ inbox[t][i].event = "element-update"
        /\ inbox[t][j].event = "element-update"
        /\ inbox[t][i].from = inbox[t][j].from) => inbox[t][i].n < inbox[t][j].n
  /\ lastEvent.event = "element-update" =>
       \A t \in socketRooms[lastEvent.roomId] \ {lastEvent.socket} :
         /\ Len(inbox[t]) > 0
         /\ inbox[t][Len(inbox[t])] =
              [event |-> "element-update", drawingId |-> lastEvent.roomId[2],
               from |-> lastEvent.socket, n |-> sendSeq[lastEvent.socket]]

\* a receiver holds two element-updates of the same sender
C8_Witness ==
  \E t \in Sockets : \E i, j \in 1..Len(inbox[t]) :
    /\ i < j
    /\ inbox[t][i].event = "element-update"
    /\ inbox[t][j].event = "element-update"
    /\ inbox[t][i].from = inbox[t][j].from
    /\ lastEvent.event = "element-update"

\* C9: a room's list never holds two records with the same participant id; a
\* join-room with an id already listed leaves one record for that id, with
\* the joining connection's handle and active = true.
C9_UniqueById ==
  /\ \A r \in RoomIds : \A i, j \in 1..Len(UsersOf(r)) :
       UsersOf(r)[i].id = UsersOf(r)[j].id => i = j
  /\ lastEvent.event = "join-room" =>
       \E i \in 1..Len(UsersOf(lastEvent.roomId)) :
         UsersOf(lastEvent.roomId)[i] =
           [id |-> lastEvent.userId, socketId |-> lastEvent.socket, isActive |-> TRUE]

\* a connection joined under an id that another connection held in the room
C9_Witness ==
  /\ lastEvent.event = "join-room"
  /\ lastEvent.replaced
  /\ \E t \in socketRooms[lastEvent.roomId] \ {lastEvent.socket} :
       RecordsOf(lastEvent.roomId, t) = {}

\* C10: a join-room is followed by exactly one presence-update that carries
\* the room's list as it is after the join and is addressed to every member
\* of the room, the joiner included.
C10_JoinBroadcast ==
  lastEvent.event = "join-room" =>
    /\ lastEmits = <<[event |-> "presence-update",
                      to |-> socketRooms[lastEvent.roomId],
                      payload |-> UsersOf(lastEvent.roomId)]>>
    /\ lastEvent.socket \in lastEmits[1].to

\* a second participant joined a room: the broadcast lists both and reaches both
C10_Witness ==
  /\ lastEvent.event = "join-room"
  /\ Len(lastEmits) = 1
  /\ Len(lastEmits[1].payload) = 2
  /\ Cardinality(lastEmits[1].to) = 2

\* roomUsers.get(roomId) || [] in a given value of the map
ListIn(m, roomId) == IF MapHas(m, roomId) THEN MapGet(m, roomId) ELSE <<>>

\* C11: a user-activity event changes nothing but the active flag of a record
\* whose socketId is the sender's socket.id, and an event from a connection
\* with no record in the named room changes nothing and emits nothing.
C11_ActivityOwnRecordOnly ==
  [][(lastEvent'.event = "user-activity" /\ steps' = steps + 1) =>
       LET s == lastEvent'.socket
           r == lastEvent'.roomId
       IN /\ \A q \in RoomIds :
               /\ Len(ListIn(roomUsers', q)) = Len(ListIn(roomUsers, q))
               /\ \A i \in 1..Len(ListIn(roomUsers, q)) :
                    ListIn(roomUsers', q)[i] # ListIn(roomUsers, q)[i] =>
                      /\ q = r
                      /\ ListIn(roomUsers, q)[i].socketId = s
                      /\ ListIn(roomUsers', q)[i].socketId = s
                      /\ ListIn(roomUsers', q)[i].id = ListIn(roomUsers, q)[i].id
          /\ ~HasSocket(ListIn(roomUsers, r), s) =>
               roomUsers' = roomUsers /\ lastEmits' = <<>>
          /\ inbox' = inbox
    ]_vars

\* a connection set its own record inactive while the record of another
\* connection, listed before it in the same room, stayed active
C11_Witness ==
  /\ lastEvent.event = "user-activity"
  /\ LET users == UsersOf(lastEvent.roomId)
     IN /\ Len(users) = 2
        /\ users[1].socketId # lastEvent.socket /\ users[1].isActive
        /\ users[2].socketId = lastEvent.socket /\ ~users[2].isActive
  /\ Len(lastEmits) = 1

\* C12: after a disconnect no room's list holds a record with the handle of
\* the disconnected connection, and every room whose list changed gets a
\* presence-update with its updated list.
C12_DisconnectRemovesAllRecords ==
  [][(lastEvent'.event = "disconnect" /\ steps' = steps + 1) =>
       LET s == lastEvent'.socket
       IN /\ \A r \in RoomIds : ~HasSocket(ListIn(roomUsers', r), s)
          /\ \A r \in RoomIds :
               ListIn(roomUsers', r) # ListIn(roomUsers, r) =>
                 \E i \in 1..Len(lastEmits') :
                   lastEmits'[i] = [event |-> "presence-update",
                                    to |-> socketRooms'[r],
                                    payload |-> ListIn(roomUsers', r)]
    ]_vars

\* the file of this request is an upload whose first 16 bytes are not the header
BadHeaderUpload == uploaded # Absent /\ uploaded.hdr # SqliteHeader

\* C13: an upload whose first 16 bytes differ from the SQLite header (or that
\* is shorter) is rejected, no worker is started for its request, and the
\* live store stays as it was.
C13_BadHeaderNoWorker ==
  BadHeaderUpload =>
    /\ verdict.run # run
    /\ impPc \notin {"worker", "backup", "swap", "swapFailed", "commit"}
    /\ files[dbPath] = before.db
    /\ impPc = "done" => response \in {400, 500}

\* a second request with a short file was answered 400 after the first
\* request had its file verified by a worker
C13_Witness ==
  /\ BadHeaderUpload /\ uploaded.hdr = "short"
  /\ impPc = "done" /\ response = 400
  /\ run = 2 /\ verdict.run = 1
  /\ before.db # Absent

\* deep validation of this request's file was decided, and not by a message
\* reporting a sound file
DeepValidationFailed ==
  /\ uploaded # Absent /\ uploaded.hdr = SqliteHeader
  /\ verdict.run = run /\ verdict.calls > 0
  /\ verdict.by # "message" \/ ~IntegrityCheck(uploaded)

\* C14: an upload with a valid header that fails deep validation (invalid
\* result, worker error, non-zero exit, timeout) is rejected with 400, the
\* live store is unchanged and the backup file is neither created nor written.
C14_DeepFailureRejected ==
  DeepValidationFailed =>
    /\ impPc \in {"rejected", "done"}
    /\ impPc = "done" => response = 400
    /\ files[dbPath] = before.db
    /\ files[backupPath] = before.backup

\* a sound file whose check timed out was rejected; store and backup existed
C14_Witness ==
  /\ DeepValidationFailed
  /\ verdict.by = "timeout" /\ IntegrityCheck(uploaded)
  /\ impPc = "done" /\ response = 400
  /\ before.db # Absent /\ before.backup # Absent

\* C15: when a failed import request is answered, neither the uploaded file
\* nor the staged file of the request is left on disk.
C15_NoTempFileAfterFailure ==
  (impPc = "done" /\ response \in {400, 500} /\ uploaded # Absent) =>
    /\ ~Exists(OriginalPath(run))
    /\ ~Exists(StagedPath(run))

InTrail(step) == \E i \in 1..Len(trail) : trail[i] = step

\* C16: a request that fails at upload, header validation, deep validation,
\* backup or swap leaves the backup file exactly as it was before the request.
C16_FailureLeavesBackup ==
  (impPc = "done" /\ response \in {400, 500} /\ ~InTrail("swapped")) =>
    files[backupPath] = before.backup

ImportSteps == <<"staged", "headerValidated", "deepValidated", "backedUp", "swapped",
                 "committed">>

\* C17: the steps of a request occur in the order staged, header validated,
\* deep validated, backed up, swapped, committed: the backup is written only
\* after deep validation succeeded, the live store is replaced only after the
\* backup step, and the request commits only after the swap.
C17_StepOrder ==
  /\ Len(trail) <= Len(ImportSteps)
  /\ \A i \in 1..Len(trail) : trail[i] = ImportSteps[i]
  /\ files[backupPath] # before.backup =>
       /\ InTrail("deepValidated")
       /\ verdict.run = run /\ verdict.by = "message" /\ IntegrityCheck(uploaded)
  /\ files[dbPath] # before.db => InTrail("backedUp")
  /\ (InTrail("committed") \/ response = 200) =>
       /\ InTrail("swapped")
       /\ files[dbPath] = uploaded

\* a request went through all six steps over an existing store
C17_Witness ==
  /\ trail = ImportSteps
  /\ response = 200
  /\ before.db # Absent
  /\ files[backupPath] = before.db
  /\ files[dbPath] = uploaded

\* C18: the verification promise is resolved at most once, settled is set
\* exactly when it was resolved, the first event decides (a timeout decides
\* failure and terminates the worker), the handler follows that decision, and
\* a verification that was started is eventually decided.
C18_SettlesOnce ==
  /\ [](/\ verdict.calls <= 1
        /\ settled <=> verdict.calls = 1
        /\ settled => timeoutHandle = "cleared"
        /\ (settled /\ verdict.by = "timeout") =>
             ~verdict.result /\ worker.state \in {"terminating", "exited"}
        /\ (settled /\ verdict.by \in {"error", "exit"}) => ~verdict.result
        /\ (settled /\ verdict.by = "message" /\ verdict.run = run) =>
             verdict.result = IntegrityCheck(uploaded)
        /\ (verdict.run = run /\ InTrail("deepValidated")) => settled /\ verdict.result
        /\ impPc = "rejected" /\ verdict.run = run => settled /\ ~verdict.result)
  /\ (impPc = "worker") ~> (settled /\ impPc # "worker")

\* the timeout decided and the worker's message for a sound file came later
C18_Witness ==
  /\ settled /\ verdict.by = "timeout" /\ verdict.calls = 1
  /\ worker.posted /\ IntegrityCheck(uploaded)
  /\ ~verdict.result
  /\ verdict.run = run /\ impPc = "done" /\ response = 400

\* the step is cacheDrawingsResponse(key, ...) of request g
PutStep(g) == getReq[g].pc = "resolved" /\ getReq'[g].pc = "done"
\* the step is getCachedDrawingsBody(key) of some request
GetStep == started' = started + 1 /\ mutReq' = mutReq
\* the step is the response of a mutating handler whose write succeeded
MutResponseStep(m) == mutReq[m].pc = "written" /\ mutReq'[m].pc = "done"

\* C19: put stores and returns the serialized payload with expiry put-time +
\* TTL; the entry stays as put until it is invalidated, put again or expired;
\* a get at a time <= expiry returns exactly the stored bytes, and a get
\* after the expiry reports a miss and removes the entry.
C19_GetAfterPut ==
  [][/\ \A g \in GetSlots : PutStep(g) =>
          LET k == getReq[g].key
          IN /\ k \in DOMAIN drawingsCache'
             /\ drawingsCache'[k] = [body |-> SerializeBody(getReq[g].rows),
                                     expiresAt |-> now + DRAWINGS_CACHE_TTL_MS]
             /\ lastGet'.body = drawingsCache'[k].body
     /\ \A k \in DOMAIN drawingsCache :
          /\ (k \in DOMAIN drawingsCache' /\ drawingsCache'[k] # drawingsCache[k]) =>
               \E g \in GetSlots : PutStep(g) /\ getReq[g].key = k
          /\ k \notin DOMAIN drawingsCache' =>
               \/ now > drawingsCache[k].expiresAt
               \/ \E m \in MutSlots : MutResponseStep(m)
     /\ GetStep =>
          IF \E g \in GetSlots : getReq'[g].pc = "findMany" /\ getReq[g].pc # "findMany"
            THEN LET g == CHOOSE g \in GetSlots :
                            getReq'[g].pc = "findMany" /\ getReq[g].pc # "findMany"
                     k == getReq'[g].key
                 IN /\ k \in DOMAIN drawingsCache => now > drawingsCache[k].expiresAt
                    /\ k \notin DOMAIN drawingsCache'
            ELSE LET k == lastGet'.key
                 IN /\ lastGet'.cache = "HIT"
                    /\ k \in DOMAIN drawingsCache
                    /\ now <= drawingsCache[k].expiresAt
                    /\ lastGet'.body = drawingsCache[k].body
                    /\ drawingsCache' = drawingsCache
    ]_vars

\* a get exactly TTL after the put was answered from the cache with the
\* bytes of the put
C19_Witness ==
  /\ lastGet.cache = "HIT"
  /\ lastGet.key \in DOMAIN drawingsCache
  /\ now = drawingsCache[lastGet.key].expiresAt
  /\ lastGet.body = drawingsCache[lastGet.key].body
  /\ \E g \in GetSlots : getReq[g] = [pc |-> "done", key |-> lastGet.key, rows |-> NoRows]

\* C20: when a successful drawing create, update, delete or duplicate or a
\* successful collection create, update or delete sends its response, the
\* cache holds no entry computed before the operation's write.
C20_MutationsInvalidate ==
  [][\A m \in MutSlots :
       (MutResponseStep(m) /\ mutReq[m].op \in Mutations) =>
         \A k \in DOMAIN drawingsCache' :
           drawingsCache'[k].body[2].rev >= mutReq[m].rev
    ]_vars

\* C21: a GET /drawings in which a cache operation faulted is still answered
\* successfully from the store.
C21_CacheFaultNeverFails == lastGet.fault => lastGet.status = 200

\* a step of the handler of an import route
ImportRouteStep == importVars' # importVars

HitStep == lastGet' # lastGet /\ lastGet'.cache = "HIT"

\* C29: a GET /drawings answered after the swap of an import is never answered
\* from the cache with a body computed from the store the import replaced.
C29_NoCachedBodyOfReplacedStore ==
  [][(HitStep /\ endpoint = "import" /\ InTrail("swapped")) =>
       lastGet'.body[2].db = files[dbPath].id]_vars

\* the parsed content of the entry at a path of the archive
Reimported(entry) == entry.content.data

\* C27: the archive holds one document entry per drawing of the store, no two
\* entries have the same path, and the entry at a drawing's path parses to that
\* drawing's stored elements, appState and files.
C27_OneEntryPerDrawing ==
  archive.sent =>
    /\ Len(archive.entries) = Len(archive.rows)
    /\ \A i, j \in 1..Len(archive.entries) :
         i # j => archive.entries[i].name # archive.entries[j].name
    /\ \A k \in 1..Len(archive.rows) :
         LET row == archive.rows[k] IN
         \A i \in 1..Len(archive.entries) :
           archive.entries[i].name = FilePath(CollectionNameOf(row), row.name) =>
             Reimported(archive.entries[i]) = DrawingData(row)

\* ---- drawings ----
ContentFields == {"elements", "appState"}
MetadataFields == {"name", "preview", "collectionId"}
\* the fields holding free text or images
TextFields == {"name", "preview", "elements", "appState", "files"}
Validator == "validateImportedDrawing"
\* a response is given in this step
WriteResponse == lastWrite' # lastWrite
\* this step changes neither the rows nor the cache
NothingWritten == UNCHANGED <<drawingRows, applied, invalidations, drawingsCache>>
\* prisma.drawing.update of handler w is applied to row id in this step
UpdateStep(w, id) ==
  /\ w \in DOMAIN writeReq
  /\ writeReq[w].pc = "await" /\ writeReq[w].kind = "PUT" /\ writeReq[w].id = id
  /\ writeReq'[w].pc = "written"

\* C22: every applied PUT /drawings/:id raises the version of its row by
\* exactly one and nothing else changes a version, so the version of a row is
\* the initial version plus the number of updates applied to it, sequential
\* or concurrent; an update is rejected only for its shape or its content,
\* never for the version the client saw; the supplied fields of the stored
\* row are those of the update applied last.
C22_VersionCountsUpdates ==
  /\ [](/\ \A id \in DOMAIN drawingRows :
             drawingRows[id].version = InitialVersion + Applied(id)
        /\ \A id \in DOMAIN applied :
             \A f \in applied[id].supplied : drawingRows[id][f].v = applied[id].n)
  /\ []((lastWrite.kind = "PUT" /\ lastWrite.status = 400) =>
          (~lastWrite.shapeOk \/ lastWrite.threw))
  /\ [][\A id \in DOMAIN drawingRows :
            \/ drawingRows'[id].version = drawingRows[id].version
            \/ /\ drawingRows'[id].version = drawingRows[id].version + 1
               /\ \E w \in WriteSlots : UpdateStep(w, id)]_vars

\* two updates of one row were in flight together and both are applied
C22_Witness ==
  \E id \in DOMAIN applied :
    /\ DOMAIN writeReq = WriteSlots
    /\ \A w \in WriteSlots : writeReq[w].pc = "written" /\ writeReq[w].id = id
                             /\ writeReq[w].kind = "PUT"
    /\ applied[id].count = 2
    /\ drawingRows[id].version = InitialVersion + 2
    /\ \E w \in WriteSlots : writeReq[w].seen # drawingRows[id].version - 1

\* C23: every value of name, preview, elements, appState or files that a
\* request of the model wrote to a row was produced by content sanitization.
C23_StoredValuesSanitized ==
  \A id \in DOMAIN drawingRows : \A f \in TextFields :
    drawingRows[id][f].v >= 1 => drawingRows[id][f].clean

\* C24: after an update, every field its body did not supply holds the value
\* the row had before the update.
C24_AbsentFieldsUnchanged ==
  \A id \in DOMAIN applied :
    \A f \in Fields \ applied[id].supplied :
      drawingRows[id][f] = applied[id].before[f]

\* C25: an update of valid shape supplying only name, preview or collectionId
\* is never answered 400; an update supplying elements or appState whose
\* sanitization throws is answered 400 and never reaches prisma.
C25_MetadataOnlyNeverRejected ==
  /\ (/\ lastWrite.kind = "PUT" /\ lastWrite.shapeOk
      /\ lastWrite.supplied # {} /\ lastWrite.supplied \subseteq MetadataFields)
       => lastWrite.status # 400
  /\ (lastWrite.kind = "PUT" /\ lastWrite.threw) =>
       (lastWrite.status = 400 /\ lastWrite.supplied \cap ContentFields # {})
  /\ \A w \in DOMAIN writeReq : writeReq[w].kind = "PUT" => ~writeReq[w].threw

\* an update supplying elements was rejected because its sanitization threw
C25_Witness ==
  /\ lastWrite.kind = "PUT" /\ lastWrite.threw /\ lastWrite.status = 400
  /\ "elements" \in lastWrite.supplied
  /\ lastWrite.id \in DOMAIN drawingRows

\* the calls of a create request: the validator first and once when the
\* request carries x-imported-file: true, never otherwise
ValidatorFirst(header, gate) ==
  IF header = "true"
    THEN /\ gate # <<>> /\ gate[1] = Validator
         /\ \A i \in 2..Len(gate) : gate[i] # Validator
    ELSE \A i \in 1..Len(gate) : gate[i] # Validator

\* C26: a POST /drawings marked as imported calls validateImportedDrawing
\* before the shape check and the sanitizer; when the validator rejects the
\* answer is 400, nothing else was called, no row is created and the cache is
\* not invalidated; an unmarked request never calls the validator.
C26_ImportedValidatedFirst ==
  /\ [](/\ lastWrite.kind = "POST" => ValidatorFirst(lastWrite.header, lastWrite.gate)
        /\ \A w \in DOMAIN writeReq :
             writeReq[w].kind = "POST" =>
               ValidatorFirst(writeReq[w].header, writeReq[w].gate))
  /\ [][(WriteResponse /\ lastWrite'.kind = "POST" /\ lastWrite'.gate = <<Validator>>) =>
          (lastWrite'.status = 400 /\ lastWrite'.header = "true" /\ NothingWritten)]_vars

\* an imported create was rejected by the validator
C26_Witness ==
  /\ lastWrite.kind = "POST" /\ lastWrite.header = "true"
  /\ lastWrite.gate = <<Validator>> /\ lastWrite.status = 400

\* the request failed the shape check or its sanitization threw
FailedValidation(q) == ~q.shapeOk \/ q.threw

MissingByIdAnswered == byIdReq.pc # "idle" /\ byIdReq'.pc = "idle" /\ ~lastById'.found
\* a PUT /drawings/:id that awaited prisma is answered in this step and no row
\* has its id
MissingPutAnswered ==
  /\ 1 \in DOMAIN writeReq /\ writeReq[1].pc = "await" /\ 1 \notin DOMAIN writeReq'
  /\ writeReq[1].id \notin DOMAIN drawingRows

\* C31: get, update, delete and duplicate addressed to an id no row has are
\* each answered 404, and the answering step leaves the rows and the cache
\* unchanged.
C31_MissingIdAnswered404 ==
  [][/\ MissingByIdAnswered =>
          (lastById'.status = 404 /\ UNCHANGED <<drawingRows, drawingsCache>>)
     /\ MissingPutAnswered =>
          (lastWrite'.status = 404 /\ UNCHANGED <<drawingRows, drawingsCache>>)]_vars

\* the drawings that reference collection id
FiledIn(id) == {d \in DOMAIN collectionOf : collectionOf[d] = id}
\* the transaction of the DELETE /collections/:id in progress settles in this step
SettleStep == colReq.pc = "await" /\ colReq'.pc # "await"

\* C32: no drawing ever references a collection that does not exist; the
\* transaction of DELETE /collections/:id either removes the collection and
\* sets exactly the references to it to null, or, when the request fails
\* (500), leaves the collections and every reference unchanged; when 200 is
\* sent the collection is gone and no drawing references it.
C32_CollectionDeleteAtomic ==
  /\ [](\A d \in DOMAIN collectionOf :
          collectionOf[d] # Unfiled => collectionOf[d] \in collections)
  /\ [][SettleStep =>
          IF colReq'.pc = "committed"
            THEN /\ collections' = collections \ {colReq.id}
                 /\ collectionOf' = [d \in DOMAIN collectionOf |->
                                       IF d \in FiledIn(colReq.id) THEN Unfiled
                                       ELSE collectionOf[d]]
            ELSE /\ lastCol'.status = 500
                 /\ UNCHANGED <<collections, collectionOf>>]_vars
  /\ []((lastCol.status = 200 /\ colReq.pc = "idle") =>
          (lastCol.id \notin collections /\ FiledIn(lastCol.id) = {}))

\* a collection was deleted, a drawing has a null reference, and the delete of
\* an existing collection that a drawing references was answered 500
C32_Witness ==
  /\ lastCol.status = 500
  /\ lastCol.id \in collections
  /\ FiledIn(lastCol.id) # {}
  /\ \E d \in DOMAIN collectionOf : collectionOf[d] = Unfiled
  /\ Cardinality(collections) < colCount

\* C33: two listing requests whose search term, collection filter or
\* full-bodies flag differ have different cache keys, and two requests that
\* agree on the three have the same key whatever else they carry.
C33_CacheKeyInjective ==
  cacheKey # <<>> =>
    \A r \in KeyRequests :
      (ListingOf(r) = ListingOf(keyQuery)) <=> (CacheKeyChars(r) = cacheKey)

\* the request has a search term with a quote, names a collection and asks for
\* full bodies; another request differs from it only in an unread parameter
C33_Witness ==
  /\ cacheKey # <<>>
  /\ keyQuery.search = <<"\"">> /\ keyQuery.collectionId = <<"\\">>
  /\ ShouldIncludeData(keyQuery.includeData)
  /\ \E r \in KeyRequests : r # keyQuery /\ CacheKeyChars(r) = cacheKey

\* what getCachedDrawingsBody(key) returns at time t from the entries of cache
CachedBodyAt(cache, key, t) ==
  IF key \in DOMAIN cache /\ ~(t > cache[key].expiresAt) THEN cache[key].body
  ELSE <<"", NoRows>>
\* the cleanup interval removes something in this step
SweepStep == drawingsCache' # drawingsCache /\ UNCHANGED <<cacheRest, now>>

\* C34: a run of the cache sweep removes exactly the entries with
\* now > expiresAt and keeps every other entry as it is, so a lookup of any
\* key now or at any later time returns the same body, or the same miss,
\* after the sweep as it would have without it.
C34_SweepTransparent ==
  [][SweepStep =>
       /\ DOMAIN drawingsCache' =
            {k \in DOMAIN drawingsCache : ~(now > drawingsCache[k].expiresAt)}
       /\ \A k \in DOMAIN drawingsCache' : drawingsCache'[k] = drawingsCache[k]
       /\ \A k \in CacheKeys, t \in now..(MaxNow + DRAWINGS_CACHE_TTL_MS) :
            CachedBodyAt(drawingsCache', k, t) = CachedBodyAt(drawingsCache, k, t)]_vars

\* two listings were cached and nothing else happened: the sweep has removed
\* the expired one and kept the other
C34_Witness ==
  /\ started = 2 /\ storeRev = 0
  /\ \A g \in GetSlots : getReq[g].pc = "done" /\ getReq[g].rows # NoRows
  /\ getReq["g1"].key \notin DOMAIN drawingsCache
  /\ getReq["g2"].key \in DOMAIN drawingsCache

\* the keys of the rate records
RateKeys == Addresses \cup {"unknown"}
\* the answer of the middleware to a request of ip at time t with the records m
Decision(m, ip, t) ==
  IF StartsWindow(m, ip, t) THEN 200
  ELSE IF LimitReached(m[ip].count) THEN 429 ELSE 200
\* the records of a limiter that handled the same requests and never swept
Unswept ==
  [ip \in {k \in RateKeys : window[k].seen > 0} |->
     [count |-> IF window[ip].seen < RATE_LIMIT_MAX_REQUESTS THEN window[ip].seen
                ELSE RATE_LIMIT_MAX_REQUESTS,
      resetTime |-> window[ip].start + RATE_LIMIT_WINDOW]]
\* the cleanup interval removes a record in this step
RateSweepStep == requestCounts' # requestCounts /\ UNCHANGED requests

\* C35: with the sweep running at arbitrary moments, every record the limiter
\* holds equals the record of a limiter that never swept, and a request of any
\* address now or later gets the same answer from both; a record is swept only
\* when the next request of its address would start a new window anyway.
C35_RateSweepTransparent ==
  /\ [](\A ip \in RateKeys :
          /\ ip \in DOMAIN requestCounts =>
               (ip \in DOMAIN Unswept /\ requestCounts[ip] = Unswept[ip])
          /\ \A t \in now..(MaxNow + 1) :
               Decision(requestCounts, ip, t) = Decision(Unswept, ip, t))
  /\ [][RateSweepStep =>
          \A ip \in DOMAIN requestCounts \ DOMAIN requestCounts' :
            \A t \in now..(MaxNow + 1) : StartsWindow(requestCounts, ip, t)]_vars

\* the record of a rejected address was swept while another address still has
\* its record
C35_Witness ==
  \E ip \in RateKeys :
    /\ rejections[ip] > 0
    /\ ip \notin DOMAIN requestCounts
    /\ DOMAIN requestCounts # {}

\* the middleware answers a request in this step
RateStep == requests' = requests + 1

AddressOf(reqIp, remoteAddress) == IF reqIp # None THEN reqIp ELSE remoteAddress
\* the record, the history window and the rejections of a key
RateStateOf(key) ==
  <<key \in DOMAIN requestCounts,
    IF key \in DOMAIN requestCounts THEN requestCounts[key]
    ELSE [count |-> 0, resetTime |-> 0],
    window[key], rejections[key]>>

\* C37: a request is decided from the record of its own address and the clock
\* alone, the answer is the one the requests of that address by themselves
\* define, and the step changes nothing that belongs to another address;
\* requests without an address are all counted in the record "unknown".
C37_RateIndependentPerAddress ==
  [][\A reqIp \in Addresses \cup {None}, remoteAddress \in Addresses \cup {None} :
       (RateStep /\ lastDecision'.ip = ClientKey(reqIp, remoteAddress)) =>
         LET address == AddressOf(reqIp, remoteAddress)
             key == IF address = None THEN "unknown" ELSE address
         IN /\ lastDecision' = [ip |-> key, status |-> Decision(requestCounts, key, now)]
            /\ (lastDecision'.status = 200) <=>
                 (ObservedWindow(window[key], now).seen <= RATE_LIMIT_MAX_REQUESTS)
            /\ \A other \in RateKeys \ {key} : RateStateOf(other)' = RateStateOf(other)]_vars

\* the requests without an address have used up the record "unknown" and were
\* rejected, while an address that asked once in the same window still has
\* one request left
C37_Witness ==
  /\ "unknown" \in DOMAIN requestCounts /\ "a1" \in DOMAIN requestCounts
  /\ rejections["unknown"] > 0 /\ rejections["a1"] = 0
  /\ requestCounts["a1"].count = 1
  /\ requestCounts["a1"].resetTime = requestCounts["unknown"].resetTime
  /\ lastDecision = [ip |-> "a1", status |-> 200]

\* the server handles a cursor-move or an element-update in this step
DataStep == steps' = steps + 1 /\ lastEvent'.event \in DataEvents

\* C38: handling a cursor-move or an element-update changes no participant
\* list and no room membership and emits no presence-update; a participant
\* list changes only in a join-room, user-activity or disconnect step.
C38_DataEventsLeavePresence ==
  [][/\ DataStep =>
          /\ UNCHANGED <<roomUsers, socketRooms>>
          /\ \A i \in 1..Len(lastEmits') : lastEmits'[i].event # "presence-update"
     /\ roomUsers' # roomUsers =>
          lastEvent'.event \in {"join-room", "user-activity", "disconnect"}]_vars

\* a participant of a room that has two members sent a cursor-move or an
\* element-update into it
C38_Witness ==
  /\ lastEvent.event \in DataEvents
  /\ HasSocket(UsersOf(lastEvent.roomId), lastEvent.socket)
  /\ Cardinality(socketRooms[lastEvent.roomId]) = 2
  /\ Len(lastEmits) = 1

\* C39: a cursor-move or element-update is addressed to every socket of the
\* room its payload names except the sender, whether or not the sender has
\* joined that room, and an element-update reaches each of them.
C39_RelayNeedsNoMembership ==
  [][DataStep =>
       LET s == lastEvent'.socket
           roomId == lastEvent'.roomId
       IN /\ Len(lastEmits') = 1
          /\ lastEmits'[1].to = socketRooms[roomId] \ {s}
          /\ lastEvent'.event = "element-update" =>
               \A t \in socketRooms[roomId] \ {s} :
                 inbox'[t] = Append(inbox[t], lastEmits'[1].payload)]_vars

\* a connection that is in no room sent an element-update that a member of
\* the named room received
C39_Witness ==
  /\ lastEvent.event = "element-update"
  /\ \A r \in RoomIds : lastEvent.socket \notin socketRooms[r]
  /\ ~HasSocket(UsersOf(lastEvent.roomId), lastEvent.socket)
  /\ \E t \in socketRooms[lastEvent.roomId] :
       /\ inbox[t] # <<>>
       /\ inbox[t][Len(inbox[t])].from = lastEvent.socket

\* a getDrawing request started for another id than the current one settles
StaleSettles ==
  \E r \in inflight : r \notin inflight' /\ r.id # cardId

\* C40: the data a card holds is the data of its current drawing id; a
\* request started for a previous id that settles after the id changed
\* neither stores its result nor clears fullDataPromiseRef; and at most one
\* getDrawing request per id is in flight.
C40_CardDataOfCurrentId ==
  /\ [](fullDataId # None => fullDataId = cardId)
  /\ [](\A r1, r2 \in inflight : r1.id = r2.id => r1 = r2)
  /\ [][StaleSettles => UNCHANGED <<fullDataId, promiseRef>>]_vars

====
